---- MODULE Spec2Model ----
\* kitAtlas: runtime glyph cache (FontAtlas / VariantAtlas / Page) with
\* deferred, microtask-batched generation and a synchronous prefab path.
EXTENDS Integers, Sequences, FiniteSets, TLC

\* ---------------------------------------------------------------------
\* Bounds of the exploration
\* ---------------------------------------------------------------------
MaxQueue == 2
MaxTasks == 2
MaxTextures == 3
MaxSelLen == 3
MaxSelSize == 3
MaxWorkers == 2
MaxPoolTasks == 2
MaxRenderSize == 130
MaxShelf == 5
MaxOverflowTasks == 4

\* ---------------------------------------------------------------------
\* Configuration handed to the FontAtlas constructor (a small page so that
\* shelf advance, page overflow and oversized glyphs all occur)
\* ---------------------------------------------------------------------
Config ==
  [genSizes |-> <<2, 4>>, sizeThresholds |-> <<2>>,
   pageSize |-> 5, maxMixedPages |-> 1]

\* Inputs of the client calls
Variants == {"v"}
RenderSizes == {2}
Fonts == {"f1", "f2"}
RequestCPs == {32, 65, 19968, 19969}

\* ---------------------------------------------------------------------
\* types.ts
\* ---------------------------------------------------------------------
LATIN_RANGES == << <<48, 57>>, <<65, 90>>, <<97, 122>> >>

isLatinChar(codePoint) ==
  \E r \in 1..Len(LATIN_RANGES) :
    codePoint >= LATIN_RANGES[r][1] /\ codePoint <= LATIN_RANGES[r][2]

LATIN_CODEPOINTS ==
  [i \in 1..62 |->
     IF i <= 10 THEN LATIN_RANGES[1][1] + (i - 1)
     ELSE IF i <= 36 THEN LATIN_RANGES[2][1] + (i - 11)
     ELSE LATIN_RANGES[3][1] + (i - 37)]

LatinSet == {LATIN_CODEPOINTS[i] : i \in 1..62}

\* Every code point the model can meet
CodePoints == LatinSet \cup RequestCPs

DEFAULT_CONFIG ==
  [genSizes |-> <<32, 64, 128>>, sizeThresholds |-> <<40, 80>>,
   pageSize |-> 1024, maxMixedPages |-> 8, pixelRange |-> 4]

PLACEHOLDER_METRICS == [width |-> 0, height |-> 0, advance |-> 0]

NoTexture == 0

\* ---------------------------------------------------------------------
\* The SDF oracle (external): which glyphs a font has and how large the
\* generated bitmap is. Font f1 has a space without pixels and small glyphs
\* for 'A', 'B' and two CJK code points. Font f2 has no space and a small 'B'; its
\* 'A' is as tall as a page, one CJK glyph is wider than a page and the other
\* as tall as a page. With no font loaded the oracle finds no glyph.
\* ---------------------------------------------------------------------
hasGlyph(font, codePoint) ==
  CASE font = "f1" -> codePoint \in {32, 65, 66, 19968, 19969}
    [] font = "f2" -> codePoint \in {65, 66, 19968, 19969}
    [] OTHER -> FALSE

generateMTSDF(font, codePoint, fontSize) ==
  CASE font = "f1" /\ codePoint = 65 -> [ok |-> TRUE, width |-> 2, height |-> 2]
    [] font = "f1" /\ codePoint = 66 -> [ok |-> TRUE, width |-> 1, height |-> 1]
    [] font = "f1" /\ codePoint \in {19968, 19969} ->
         [ok |-> TRUE, width |-> 2, height |-> 2]
    [] font = "f2" /\ codePoint = 65 ->
         [ok |-> TRUE, width |-> 1, height |-> Config.pageSize]
    [] font = "f2" /\ codePoint = 66 -> [ok |-> TRUE, width |-> 1, height |-> 1]
    [] font = "f2" /\ codePoint = 19968 ->
         [ok |-> TRUE, width |-> Config.pageSize + 1, height |-> 1]
    [] font = "f2" /\ codePoint = 19969 ->
         [ok |-> TRUE, width |-> 1, height |-> Config.pageSize]
    [] OTHER -> [ok |-> FALSE, width |-> 0, height |-> 0]

\* The oracle's advance for a generated glyph (any positive number will do).
advanceOf(glyph) == glyph.width + 1

\* ---------------------------------------------------------------------
\* Page: row-shelf packer
\* ---------------------------------------------------------------------
padding == 1

Max(a, b) == IF a >= b THEN a ELSE b

SetMin(S) == CHOOSE x \in S : \A y \in S : x <= y

NewPage(tex, width, height) ==
  [texture |-> tex, width |-> width, height |-> height,
   cursorX |-> 0, cursorY |-> 0, rowHeight |-> 0, dirty |-> FALSE]

tryAddNoGutter(page, w, h) ==
  LET paddedW == w + padding
      paddedH == h + padding
      p1 == IF page.cursorX + paddedW > page.width
            THEN [page EXCEPT !.cursorY = page.cursorY + page.rowHeight + padding,
                              !.cursorX = 0,
                              !.rowHeight = 0]
            ELSE page
  IN IF p1.cursorY + paddedH > p1.height
     THEN [page |-> p1, ok |-> FALSE, x |-> 0, y |-> 0]
     ELSE [page |-> [p1 EXCEPT !.cursorX = p1.cursorX + w,
                               !.rowHeight = Max(p1.rowHeight, paddedH),
                               !.dirty = TRUE],
           ok |-> TRUE, x |-> p1.cursorX, y |-> p1.cursorY]

\* Result: the page after the call, whether a position was returned, and it.
tryAdd(page, w, h) ==
  LET paddedW == w + padding
      paddedH == h + padding
      p1 == IF page.cursorX + paddedW > page.width
            THEN [page EXCEPT !.cursorY = page.cursorY + page.rowHeight + padding,
                              !.cursorX = 0,
                              !.rowHeight = 0]
            ELSE page
  IN IF p1.cursorY + paddedH > p1.height
     THEN [page |-> p1, ok |-> FALSE, x |-> 0, y |-> 0]
     ELSE [page |-> [p1 EXCEPT !.cursorX = p1.cursorX + paddedW,
                               !.rowHeight = Max(p1.rowHeight, paddedH),
                               !.dirty = TRUE],
           ok |-> TRUE, x |-> p1.cursorX, y |-> p1.cursorY]

flush(page) == [page EXCEPT !.dirty = FALSE]

\* ---------------------------------------------------------------------
\* VariantAtlas. A context c = [a, next, ref, threw, replaced] carries the
\* atlas, the next texture handle the factory will hand out, the page an
\* operation selected (0 = Latin page, i = mixedPages[i]), whether it threw,
\* and the code points whose GlyphLocation object in the Map it replaced by a
\* newly constructed one (reserveGlyph and storeGlyph build an object and set
\* it in the Map; updateGlyphLocation and markEmpty write into the object the
\* Map holds).
\* ---------------------------------------------------------------------
EmptyMap == [x \in {} |-> 0]

\* glyphIndex[cp] is <<>> when the Map has no entry for cp, else <<location>>
EmptyIndex == [cp \in CodePoints |-> <<>>]

Put(m, k, v) == [x \in (DOMAIN m) \cup {k} |-> IF x = k THEN v ELSE m[x]]

NewVariantAtlas(variantId, genSize) ==
  [variantId |-> variantId, genSize |-> genSize,
   latinPage |-> <<>>, mixedPages |-> <<>>,
   glyphIndex |-> EmptyIndex, pendingGlyphs |-> {}]

Ctx(a, next) == [a |-> a, next |-> next, ref |-> 0, threw |-> FALSE, replaced |-> {}]

PageOf(a, ref) == IF ref = 0 THEN a.latinPage[1] ELSE a.mixedPages[ref]

WithPage(a, ref, p) ==
  IF ref = 0 THEN [a EXCEPT !.latinPage = <<p>>]
  ELSE [a EXCEPT !.mixedPages[ref] = p]

PageRef(page) == [texture |-> page.texture, width |-> page.width, height |-> page.height]

atlasGetGlyphNeverCached(a, codePoint) == <<>>

\* VariantAtlas.getGlyph: <<location>> when cached and not pending, else <<>>
atlasGetGlyph(a, codePoint) ==
  IF codePoint \in a.pendingGlyphs THEN <<>>
  ELSE a.glyphIndex[codePoint]

createMixedPageTwice(c) ==
  [c EXCEPT !.a.mixedPages = @ \o <<NewPage(c.next, Config.pageSize, Config.pageSize),
                                    NewPage(c.next + 1, Config.pageSize, Config.pageSize)>>,
            !.next = c.next + 2,
            !.ref = Len(c.a.mixedPages) + 2]

createMixedPageCapped(c) ==
  IF Len(c.a.mixedPages) >= Config.maxMixedPages /\ Len(c.a.mixedPages) > 0
  THEN [c EXCEPT !.a.mixedPages[Len(c.a.mixedPages)] =
                    NewPage(c.next, Config.pageSize, Config.pageSize),
                 !.next = c.next + 1,
                 !.ref = Len(c.a.mixedPages)]
  ELSE [c EXCEPT !.a.mixedPages = Append(@, NewPage(c.next, Config.pageSize, Config.pageSize)),
                 !.next = c.next + 1,
                 !.ref = Len(c.a.mixedPages) + 1]

createMixedPage(c) ==
  [c EXCEPT !.a.mixedPages = Append(@, NewPage(c.next, Config.pageSize, Config.pageSize)),
            !.next = c.next + 1,
            !.ref = Len(c.a.mixedPages) + 1]

getOrCreatePageAnyPage(c, isLatin, glyphHeight) ==
  LET fits == {i \in 1..Len(c.a.mixedPages) :
                 c.a.mixedPages[i].cursorY + glyphHeight <= c.a.mixedPages[i].height}
  IN IF fits # {} THEN [c EXCEPT !.ref = SetMin(fits)]
     ELSE createMixedPage(c)

getOrCreatePage(c, isLatin, glyphHeight) ==
  IF isLatin
  THEN IF c.a.latinPage = <<>>
       THEN [c EXCEPT !.a.latinPage = <<NewPage(c.next, Config.pageSize, Config.pageSize)>>,
                      !.next = c.next + 1,
                      !.ref = 0]
       ELSE [c EXCEPT !.ref = 0]
  ELSE LET fits == {i \in 1..Len(c.a.mixedPages) :
                      c.a.mixedPages[i].cursorY + glyphHeight <= c.a.mixedPages[i].height}
       IN IF fits # {} THEN [c EXCEPT !.ref = SetMin(fits)]
          ELSE createMixedPage(c)

reserveGlyphNoTexture(c, codePoint) ==
  LET g == getOrCreatePage(c, isLatinChar(codePoint), c.a.genSize)
      page == PageOf(g.a, g.ref)
      location == [page |-> [texture |-> NoTexture, width |-> page.width,
                             height |-> page.height],
                   x |-> 0, y |-> 0, width |-> 0, height |-> 0,
                   metrics |-> PLACEHOLDER_METRICS, empty |-> FALSE, missing |-> FALSE]
  IN [g EXCEPT !.a.pendingGlyphs = @ \cup {codePoint},
               !.a.glyphIndex[codePoint] = <<location>>,
               !.replaced = @ \cup (IF c.a.glyphIndex[codePoint] # <<>>
                                      THEN {codePoint} ELSE {})]

reserveGlyph(c, codePoint) ==
  LET g == getOrCreatePage(c, isLatinChar(codePoint), c.a.genSize)
      page == PageOf(g.a, g.ref)
      location == [page |-> PageRef(page), x |-> 0, y |-> 0, width |-> 0, height |-> 0,
                   metrics |-> PLACEHOLDER_METRICS, empty |-> FALSE, missing |-> FALSE]
  IN [g EXCEPT !.a.pendingGlyphs = @ \cup {codePoint},
               !.a.glyphIndex[codePoint] = <<location>>,
               !.replaced = @ \cup (IF c.a.glyphIndex[codePoint] # <<>>
                                      THEN {codePoint} ELSE {})]

updateGlyphLocation(a, codePoint, page, x, y, metrics) ==
  LET a1 == IF a.glyphIndex[codePoint] # <<>>
            THEN [a EXCEPT !.glyphIndex[codePoint][1] =
                    [@ EXCEPT !.page = PageRef(page), !.x = x, !.y = y,
                              !.width = metrics.width, !.height = metrics.height,
                              !.metrics = metrics,
                              !.empty = FALSE, !.missing = FALSE]]
            ELSE a
  IN [a1 EXCEPT !.pendingGlyphs = @ \ {codePoint}]

storeGlyphNoUnpend(a, codePoint, page, x, y, metrics) ==
  [a EXCEPT !.glyphIndex[codePoint] =
      <<[page |-> PageRef(page), x |-> x, y |-> y,
         width |-> metrics.width, height |-> metrics.height,
         metrics |-> metrics, empty |-> FALSE, missing |-> FALSE]>>]

storeGlyph(a, codePoint, page, x, y, metrics) ==
  LET location == [page |-> PageRef(page), x |-> x, y |-> y,
                   width |-> metrics.width, height |-> metrics.height,
                   metrics |-> metrics, empty |-> FALSE, missing |-> FALSE]
  IN [a EXCEPT !.glyphIndex[codePoint] = <<location>>,
               !.pendingGlyphs = @ \ {codePoint}]

\* fillGlyph / addGlyph share their packing; they differ in how the Location
\* is written (update in place vs. store a fresh one).
PlaceGlyph(c, codePoint, metrics, fresh) ==
  LET isLatin == isLatinChar(codePoint)
      g == getOrCreatePage(c, isLatin, metrics.height)
      r == tryAdd(PageOf(g.a, g.ref), metrics.width, metrics.height)
      g1 == [g EXCEPT !.a = WithPage(g.a, g.ref, r.page)]
      Write(a, page, x, y) ==
        IF fresh THEN storeGlyph(a, codePoint, page, x, y, metrics)
        ELSE updateGlyphLocation(a, codePoint, page, x, y, metrics)
      Replaced(s) == IF fresh /\ c.a.glyphIndex[codePoint] # <<>>
                     THEN s \cup {codePoint} ELSE s
  IN IF r.ok
     THEN [g1 EXCEPT !.a = Write(g1.a, r.page, r.x, r.y), !.replaced = Replaced(@)]
     ELSE IF isLatin
          THEN [g1 EXCEPT !.threw = TRUE]
          ELSE LET n == createMixedPage(g1)
                   r2 == tryAdd(PageOf(n.a, n.ref), metrics.width, metrics.height)
                   n1 == [n EXCEPT !.a = WithPage(n.a, n.ref, r2.page)]
               IN IF r2.ok
                  THEN [n1 EXCEPT !.a = Write(n1.a, r2.page, r2.x, r2.y),
                                  !.replaced = Replaced(@)]
                  ELSE [n1 EXCEPT !.threw = TRUE]

fillGlyph(c, codePoint, metrics) == PlaceGlyph(c, codePoint, metrics, FALSE)

addGlyph(c, codePoint, metrics) == PlaceGlyph(c, codePoint, metrics, TRUE)

markEmpty(a, codePoint, missing) ==
  LET a1 == IF a.glyphIndex[codePoint] # <<>>
            THEN [a EXCEPT !.glyphIndex[codePoint][1] =
                    [@ EXCEPT !.empty = TRUE, !.missing = missing,
                              !.width = 0, !.height = 0]]
            ELSE a
  IN [a1 EXCEPT !.pendingGlyphs = @ \ {codePoint}]

flushDirtyPages(a) ==
  [a EXCEPT !.latinPage = [i \in DOMAIN a.latinPage |-> flush(a.latinPage[i])],
            !.mixedPages = [i \in DOMAIN a.mixedPages |-> flush(a.mixedPages[i])]]

hasDirtyPages(a) ==
  \/ \E i \in DOMAIN a.latinPage : a.latinPage[i].dirty
  \/ \E i \in DOMAIN a.mixedPages : a.mixedPages[i].dirty

\* The handles flushDirtyPages passes to the texture factory's update
flushUpdates(a) ==
  {(a.latinPage \o a.mixedPages)[i].texture :
     i \in {j \in 1..Len(a.latinPage \o a.mixedPages) : (a.latinPage \o a.mixedPages)[j].dirty}}

destroyKeepsPending(a) ==
  [a |-> [a EXCEPT !.latinPage = <<>>, !.mixedPages = <<>>,
                   !.glyphIndex = EmptyIndex],
   destroyed |-> [i \in 1..Len(a.latinPage \o a.mixedPages) |->
                    (a.latinPage \o a.mixedPages)[i].texture]]

\* VariantAtlas.destroy: the atlas afterwards and the handles passed to the
\* texture factory's destroy, in call order
destroy(a) ==
  [a |-> [a EXCEPT !.latinPage = <<>>, !.mixedPages = <<>>,
                   !.glyphIndex = EmptyIndex, !.pendingGlyphs = {}],
   destroyed |-> [i \in 1..Len(a.latinPage \o a.mixedPages) |->
                    (a.latinPage \o a.mixedPages)[i].texture]]

\* ---------------------------------------------------------------------
\* FontAtlas
\* ---------------------------------------------------------------------
VARIABLES
  atlases,        \* Map key -> VariantAtlas
  pendingGlyphs,  \* the FIFO of PendingGlyph
  batchPromise,   \* TRUE iff this.batchPromise is non-null
  tasks,          \* processBatch microtasks queued on the event loop
  nextTexture,    \* next handle textureFactory.create returns
  loadedFont,     \* the font currently loaded in the SDF oracle
  ret,            \* what the last call returned / did
  clientFont,     \* the font bytes the client passes with its requests
  sel,            \* a selectGenSize call: its configuration, argument and result
  pool,           \* the WorkerPool, its workers and the message channels
  textures,       \* the texture backend: the destroy calls per handle and the
                  \* handles that got an update after their destroy
  shelf           \* a Page under a sequence of tryAdd calls

vars == <<atlases, pendingGlyphs, batchPromise, tasks, nextTexture, loadedFont, ret,
          clientFont, sel, pool, textures, shelf>>

RECURSIVE selectGenSizeScan(_, _, _)
\* The for loop of selectGenSize from index i on
selectGenSizeScan(config, renderSize, i) ==
  IF i > Len(config.sizeThresholds) THEN config.genSizes[Len(config.genSizes)]
  ELSE IF renderSize <= config.sizeThresholds[i] THEN config.genSizes[i]
  ELSE selectGenSizeScan(config, renderSize, i + 1)

selectGenSizeStrict(config, renderSize) ==
  LET hits == {i \in 1..Len(config.sizeThresholds) : renderSize < config.sizeThresholds[i]}
  IN IF hits # {} THEN config.genSizes[SetMin(hits)]
     ELSE config.genSizes[Len(config.genSizes)]

\* selectGenSize under a given configuration
selectGenSizeFor(config, renderSize) == selectGenSizeScan(config, renderSize, 1)

selectGenSize(renderSize) == selectGenSizeFor(Config, renderSize)

AtlasKey(variantId, genSize) == <<variantId, genSize>>

Keys == {AtlasKey(v, selectGenSize(r)) : v \in Variants, r \in RenderSizes}

getOrCreateAtlas(m, variantId, genSize) ==
  IF AtlasKey(variantId, genSize) \in DOMAIN m THEN m
  ELSE Put(m, AtlasKey(variantId, genSize), NewVariantAtlas(variantId, genSize))

locationToInfo(location, genSize, cached) ==
  [texture |-> location.page.texture,
   x |-> location.x, y |-> location.y,
   width |-> location.width, height |-> location.height,
   pageWidth |-> location.page.width, pageHeight |-> location.page.height,
   metrics |-> location.metrics,
   genSize |-> genSize, cached |-> cached,
   empty |-> location.empty, missing |-> location.missing]

NoInfo ==
  [texture |-> NoTexture, x |-> 0, y |-> 0, width |-> 0, height |-> 0,
   pageWidth |-> 0, pageHeight |-> 0, metrics |-> PLACEHOLDER_METRICS,
   genSize |-> 0, cached |-> FALSE, empty |-> FALSE, missing |-> FALSE]

NoKey == AtlasKey("", 0)

\* op: the call; info: the GlyphInfo getGlyph returned; callbacks: how often
\* the call invoked onGlyphsReady; threw: whether it raised an error
\* taken: how many FIFO entries a drain took; replaced: the code points of
\* atlas key whose GlyphLocation object the call replaced by a new one
Ret(op, key, cp, info, taken, callbacks, threw) ==
  [op |-> op, key |-> key, codePoint |-> cp, info |-> info,
   taken |-> taken, callbacks |-> callbacks, threw |-> threw, replaced |-> {}]

hasPendingWork == Len(pendingGlyphs) > 0 \/ batchPromise

\* No selectGenSize call under observation, no WorkerPool constructed
NoSel == [config |-> [genSizes |-> <<>>, sizeThresholds |-> <<>>],
          renderSize |-> 0, result |-> <<>>]

NoPool == [platform |-> "none"]

\* No Page under observation
NoShelf == [page |-> <<>>, row |-> {}, ok |-> <<>>, placed |-> <<>>]

\* The FontAtlas right after construction
NewFontAtlas ==
  /\ atlases = EmptyMap
  /\ pendingGlyphs = <<>>
  /\ batchPromise = FALSE
  /\ tasks = 0
  /\ nextTexture = 1
  /\ loadedFont = "none"
  /\ ret = Ret("new", NoKey, 0, NoInfo, 0, 0, FALSE)
  /\ textures = [destroys |-> EmptyMap, late |-> {}]

Init ==
  /\ NewFontAtlas
  /\ clientFont \in Fonts
  /\ sel = NoSel
  /\ pool = NoPool
  /\ shelf = NoShelf

\* What getGlyph(request) computes: whether the cache had the glyph, the
\* atlases and texture counter after the call, and the GlyphInfo it returns
getGlyphResult(codePoint, variantId, renderSize) ==
  LET genSize == selectGenSize(renderSize)
      key == AtlasKey(variantId, genSize)
      m == getOrCreateAtlas(atlases, variantId, genSize)
      location == atlasGetGlyph(m[key], codePoint)
      c == reserveGlyph(Ctx(m[key], nextTexture), codePoint)
  IN IF location # <<>>
     THEN [hit |-> TRUE, atlases |-> m, next |-> nextTexture, replaced |-> {},
           info |-> locationToInfo(location[1], genSize, TRUE)]
     ELSE [hit |-> FALSE, atlases |-> [m EXCEPT ![key] = c.a], next |-> c.next,
           replaced |-> c.replaced,
           info |-> locationToInfo(c.a.glyphIndex[codePoint][1], genSize, FALSE)]

\* getGlyph(request), with queueGeneration on a miss
GetGlyph(codePoint, variantId, fontBuffer, renderSize) ==
  LET genSize == selectGenSize(renderSize)
      key == AtlasKey(variantId, genSize)
  IN \E r \in {getGlyphResult(codePoint, variantId, renderSize)} :
     /\ atlases' = r.atlases
     /\ nextTexture' = r.next
     /\ ret' = [Ret("getGlyph", key, codePoint, r.info, 0, 0, FALSE)
                   EXCEPT !.replaced = r.replaced]
     /\ UNCHANGED <<loadedFont, clientFont, sel, pool, textures, shelf>>
     /\ IF r.hit
        THEN UNCHANGED <<pendingGlyphs, batchPromise, tasks>>
        ELSE /\ Len(pendingGlyphs) < MaxQueue
             /\ r.next <= MaxTextures + 1
             /\ batchPromise \/ tasks < MaxTasks
             /\ pendingGlyphs' = Append(pendingGlyphs,
                  [codePoint |-> codePoint, genSize |-> genSize,
                   fontBuffer |-> fontBuffer, variantId |-> variantId])
             /\ batchPromise' = TRUE
             /\ tasks' = IF batchPromise THEN tasks ELSE tasks + 1

\* FontAtlas.generateGlyph: loads the font, then asks the oracle
generateGlyph(codePoint, fontSize, fontBuffer) ==
  generateMTSDF(fontBuffer, codePoint, fontSize)

MetricsOf(glyph) ==
  [width |-> glyph.width, height |-> glyph.height, advance |-> advanceOf(glyph)]

\* One iteration of processBatch's loop. st = [atlases, next, loaded, threw]
ProcessEntry(st, pending) ==
  LET key == AtlasKey(pending.variantId, pending.genSize)
      m == getOrCreateAtlas(st.atlases, pending.variantId, pending.genSize)
      glyph == generateGlyph(pending.codePoint, pending.genSize, pending.fontBuffer)
      c == fillGlyph(Ctx(m[key], st.next), pending.codePoint, MetricsOf(glyph))
  IN IF ~hasGlyph(pending.fontBuffer, pending.codePoint)
     THEN [st EXCEPT !.atlases = [m EXCEPT ![key] = markEmpty(m[key], pending.codePoint, TRUE)],
                     !.loaded = pending.fontBuffer]
     ELSE IF glyph.ok
     THEN [atlases |-> [m EXCEPT ![key] = c.a], next |-> c.next,
           loaded |-> pending.fontBuffer, threw |-> c.threw]
     ELSE [st EXCEPT !.atlases = [m EXCEPT ![key] = markEmpty(m[key], pending.codePoint, FALSE)],
                     !.loaded = pending.fontBuffer]

RECURSIVE BatchLoop(_, _, _)
\* Runs the loop over batch[i..]; an exception stops it.
BatchLoop(st, batch, i) ==
  IF i > Len(batch) \/ st.threw THEN st
  ELSE BatchLoop(ProcessEntry(st, batch[i]), batch, i + 1)

\* The texture backend after update calls on the handles in updated
textureUpdate(t, updated) ==
  [t EXCEPT !.late = @ \cup (updated \cap DOMAIN t.destroys)]

destroyCallsNone(t, m) == t

\* The texture backend after dispose's loop of atlas.destroy() over the map m
destroyCalls(t, m) ==
  LET calls == UNION {{<<k, i>> : i \in 1..Len(destroy(m[k]).destroyed)} : k \in DOMAIN m}
      handle(c) == destroy(m[c[1]]).destroyed[c[2]]
      handles == {handle(c) : c \in calls}
  IN [t EXCEPT !.destroys =
        [h \in (DOMAIN t.destroys) \cup handles |->
           (IF h \in DOMAIN t.destroys THEN t.destroys[h] ELSE 0)
           + Cardinality({c \in calls : handle(c) = h})]]

flushAllSkipped(m) == m

\* processBatch's loop over this.atlases.values() calling flushDirtyPages
flushAll(m) == [k \in DOMAIN m |-> flushDirtyPages(m[k])]

DrainStart == [atlases |-> atlases, next |-> nextTexture, loaded |-> loadedFont, threw |-> FALSE]

\* The number of onGlyphsReady invocations of one processBatch run
processBatchNotify(batch, st) ==
  IF Len(batch) = 0 THEN 0 ELSE IF st.threw THEN 0 ELSE 1

\* The microtask: processBatch runs to completion (it never awaits)
ProcessBatch ==
  LET batch == pendingGlyphs
  IN \E st \in {BatchLoop(DrainStart, batch, 1)} :
     /\ tasks > 0
     /\ st.next <= MaxTextures + 1
     /\ tasks' = tasks - 1
     /\ pendingGlyphs' = <<>>
     /\ batchPromise' = FALSE
     /\ atlases' = IF Len(batch) = 0 \/ st.threw THEN st.atlases ELSE flushAll(st.atlases)
     /\ nextTexture' = st.next
     /\ loadedFont' = st.loaded
     /\ ret' = Ret("processBatch", NoKey, 0, NoInfo, Len(batch),
                   processBatchNotify(batch, st), st.threw)
     /\ textures' = IF Len(batch) = 0 \/ st.threw THEN textures
                    ELSE textureUpdate(textures,
                           UNION {flushUpdates(st.atlases[k]) : k \in DOMAIN st.atlases})
     /\ UNCHANGED <<clientFont, sel, pool, shelf>>

\* One iteration of prefabLatin's loop. st = [a, next, loaded, threw, replaced]
PrefabEntry(st, codePoint, genSize, fontBuffer) ==
  LET glyph == generateGlyph(codePoint, genSize, fontBuffer)
      r == reserveGlyph(Ctx(st.a, st.next), codePoint)
      c == addGlyph(Ctx(st.a, st.next), codePoint, MetricsOf(glyph))
  IN IF atlasGetGlyph(st.a, codePoint) # <<>> THEN st
     ELSE IF ~hasGlyph(st.loaded, codePoint)
     THEN [st EXCEPT !.a = markEmpty(r.a, codePoint, TRUE), !.next = r.next,
                     !.replaced = @ \cup r.replaced]
     ELSE IF glyph.ok
     THEN [a |-> c.a, next |-> c.next, loaded |-> fontBuffer, threw |-> c.threw,
           replaced |-> st.replaced \cup c.replaced]
     ELSE [a |-> markEmpty(r.a, codePoint, FALSE), next |-> r.next,
           loaded |-> fontBuffer, threw |-> FALSE,
           replaced |-> st.replaced \cup r.replaced]

RECURSIVE PrefabLoop(_, _, _, _)
PrefabLoop(st, i, genSize, fontBuffer) ==
  IF i > Len(LATIN_CODEPOINTS) \/ st.threw THEN st
  ELSE PrefabLoop(PrefabEntry(st, LATIN_CODEPOINTS[i], genSize, fontBuffer),
                  i + 1, genSize, fontBuffer)

\* prefabLatin's effect on the atlas, the texture factory and the oracle
PrefabAtlas(variantId, fontSize, fontBuffer) ==
  LET genSize == selectGenSize(fontSize)
      key == AtlasKey(variantId, genSize)
      m == getOrCreateAtlas(atlases, variantId, genSize)
  IN \E st \in {PrefabLoop([a |-> m[key], next |-> nextTexture, loaded |-> loadedFont,
                            threw |-> FALSE, replaced |-> {}], 1, genSize, fontBuffer)} :
     /\ st.next <= MaxTextures + 1
     /\ atlases' = [m EXCEPT ![key] = IF st.threw THEN st.a ELSE flushDirtyPages(st.a)]
     /\ textures' = IF st.threw THEN textures
                    ELSE textureUpdate(textures, flushUpdates(st.a))
     /\ nextTexture' = st.next
     /\ loadedFont' = st.loaded
     /\ ret' = [Ret("prefabLatin", key, 0, NoInfo, 0, 0, st.threw)
                   EXCEPT !.replaced = st.replaced]

PrefabLatinDropsQueue(variantId, fontSize, fontBuffer) ==
  /\ PrefabAtlas(variantId, fontSize, fontBuffer)
  /\ pendingGlyphs' = <<>>
  /\ batchPromise' = FALSE
  /\ UNCHANGED <<tasks, clientFont, sel, pool, shelf>>

\* prefabLatin: it touches neither the FIFO nor the drain task
PrefabLatin(variantId, fontSize, fontBuffer) ==
  /\ PrefabAtlas(variantId, fontSize, fontBuffer)
  /\ UNCHANGED <<pendingGlyphs, batchPromise, tasks, clientFont, sel, pool, shelf>>

Dispose ==
  /\ atlases' = EmptyMap
  /\ textures' = destroyCalls(textures, atlases)
  /\ pendingGlyphs' = <<>>
  /\ batchPromise' = FALSE
  /\ ret' = Ret("dispose", NoKey, 0, NoInfo, 0, 0, FALSE)
  /\ UNCHANGED <<tasks, nextTexture, loadedFont, clientFont, sel, pool, shelf>>

Next ==
  \/ \E cp \in RequestCPs, v \in Variants, r \in RenderSizes :
       GetGlyph(cp, v, clientFont, r)
  \/ ProcessBatch
  \/ \E v \in Variants, r \in RenderSizes : PrefabLatin(v, r, clientFont)
  \/ Dispose

Spec == Init /\ [][Next]_vars

\* ---------------------------------------------------------------------
\* The FontAtlas with an event loop that keeps running its microtasks and a
\* client that never calls dispose. A call is taken only when the drain of
\* the FIFO it leaves stays within the texture handles explored, so that the
\* queued drain can always run.
\* ---------------------------------------------------------------------
DrainFits(st, batch) == BatchLoop(st, batch, 1).next <= MaxTextures + 1

\* The call just made leaves a FIFO whose drain fits
DrainWillFit == \E st \in {DrainStart'}, batch \in {pendingGlyphs'} : DrainFits(st, batch)

LiveNext ==
  \/ \E cp \in RequestCPs, v \in Variants, r \in RenderSizes :
       GetGlyph(cp, v, clientFont, r) /\ DrainWillFit
  \/ ProcessBatch
  \/ \E v \in Variants, r \in RenderSizes :
       PrefabLatin(v, r, clientFont) /\ DrainWillFit

\* The event loop runs a queued microtask: the step that takes one
\* processBatch task off the queue. Among the steps of LiveNext these are
\* exactly the ProcessBatch steps, and one is possible whenever a task is
\* queued.
Tick == tasks > 0 /\ tasks' = tasks - 1

LiveSpec == Init /\ [][LiveNext]_vars /\ WF_tasks(Tick)

\* ---------------------------------------------------------------------
\* selectGenSize as a pure function: any configuration with one threshold
\* less than generation sizes, any render size
\* ---------------------------------------------------------------------
SelValues == 1..MaxSelSize

SelConfigs ==
  UNION {[genSizes : [1..n -> SelValues], sizeThresholds : [1..(n - 1) -> SelValues]] :
           n \in 1..MaxSelLen}

SelRenderSizes == 0..(MaxSelSize + 1)

\* The part of DEFAULT_CONFIG selectGenSize reads, and render sizes around it
DefaultSelConfig ==
  [genSizes |-> DEFAULT_CONFIG.genSizes, sizeThresholds |-> DEFAULT_CONFIG.sizeThresholds]

DefaultRenderSizes == 0..MaxRenderSize

SelInit ==
  /\ NewFontAtlas
  /\ clientFont = "f1"
  /\ pool = NoPool
  /\ shelf = NoShelf
  /\ \/ sel \in [config : SelConfigs, renderSize : SelRenderSizes, result : {<<>>}]
     \/ sel \in [config : {DefaultSelConfig}, renderSize : DefaultRenderSizes,
                  result : {<<>>}]

\* The call selectGenSize(renderSize) of an atlas configured with sel.config
SelectGenSize ==
  /\ sel.result = <<>>
  /\ sel' = [sel EXCEPT !.result = <<selectGenSizeFor(sel.config, sel.renderSize)>>]
  /\ UNCHANGED <<atlases, pendingGlyphs, batchPromise, tasks, nextTexture, loadedFont,
                 ret, clientFont, pool, textures, shelf>>

SelNext == SelectGenSize

SelSpec == SelInit /\ [][SelNext]_vars

\* ---------------------------------------------------------------------
\* WorkerPool (Node worker_threads and Deno variants). The worker side is not
\* part of the sources; it follows the message protocol: init -> ready (or an
\* error event when its initialisation fails), generate -> result,
\* dispose -> disposed, each worker answering its messages in FIFO order.
\* ---------------------------------------------------------------------
Platforms == {"node", "deno"}
PoolChars == {65, 66}

WorkerIds(p) == 1..p.numWorkers

Msg(type, charCode, worker) == [type |-> type, charCode |-> charCode, worker |-> worker]

\* A generateGlyph call: its promise, the generate messages sent for it and
\* the values its promise was resolved with
NewTask(charCode, batch) ==
  [charCode |-> charCode, state |-> "awaiting", sentTo |-> <<>>,
   results |-> <<>>, batch |-> batch]

NewBatch(chars) ==
  [chars |-> chars, state |-> "awaiting", promises |-> <<>>, result |-> <<>>]

Continuation(kind, id) == [kind |-> kind, id |-> id]

\* new WorkerPool(..., {numWorkers}): initWorkers runs up to its await
initWorkers(platform, numWorkers) ==
  [platform |-> platform, numWorkers |-> numWorkers,
   workers |-> [w \in 1..numWorkers |-> w],
   available |-> <<>>, taskQueue |-> <<>>,
   workerTasks |-> [w \in 1..numWorkers |-> <<>>],
   ready |-> IF numWorkers = 0 THEN "resolved" ELSE "pending",
   initPromises |-> [w \in 1..numWorkers |-> "pending"],
   initListener |-> [w \in 1..numWorkers |-> TRUE],
   resultListener |-> [w \in 1..numWorkers |-> FALSE],
   disposeListener |-> [w \in 1..numWorkers |-> FALSE],
   disposePromises |-> [w \in 1..numWorkers |-> "none"],
   disposed |-> "none",
   waiters |-> <<>>, microtasks |-> <<>>,
   tasks |-> <<>>, batches |-> <<>>,
   workerState |-> [w \in 1..numWorkers |-> "alive"],
   toWorker |-> [w \in 1..numWorkers |-> <<Msg("init", 0, w)>>],
   fromWorker |-> [w \in 1..numWorkers |-> <<>>]]

\* worker.postMessage(msg): a worker that is gone receives nothing
postMessage(p, w, msg) ==
  IF p.workerState[w] = "alive" THEN [p EXCEPT !.toWorker[w] = Append(@, msg)] ELSE p

\* The worker's answer to a message of the protocol
answerTo(msg, w) ==
  Msg(CASE msg.type = "init" -> "ready"
        [] msg.type = "generate" -> "result"
        [] OTHER -> "disposed",
      msg.charCode, w)

\* worker.terminate() races with the worker's thread: the worker is stopped
\* when it has answered the first `ahead` of the messages it still holds. It
\* answers no other message; the answers it has posted are still delivered.
terminate(p, w, ahead) ==
  LET n == IF ahead < Len(p.toWorker[w]) THEN ahead ELSE Len(p.toWorker[w])
  IN [p EXCEPT !.workerState[w] = "terminated",
               !.toWorker[w] = <<>>,
               !.fromWorker[w] = @ \o [i \in 1..n |-> answerTo(p.toWorker[w][i], w)]]

dispatchToWorkerTwice(p, w, t) ==
  LET p1 == [p EXCEPT !.workerTasks[w] = <<t>>, !.tasks[t].state = "sent",
                      !.tasks[t].sentTo = Append(Append(@, w), w)]
  IN postMessage(postMessage(p1, w, Msg("generate", p.tasks[t].charCode, w)),
                 w, Msg("generate", p.tasks[t].charCode, w))

dispatchToWorker(p, w, t) ==
  LET p1 == [p EXCEPT !.workerTasks[w] = <<t>>, !.tasks[t].state = "sent",
                      !.tasks[t].sentTo = Append(@, w)]
  IN postMessage(p1, w, Msg("generate", p.tasks[t].charCode, w))

\* Promise.all over the promises of a batch: resolved once all are resolved,
\* with their values in the order of the promises
BatchSettled(p, b) ==
  LET batch == p.batches[b]
  IN IF /\ batch.state = "running"
        /\ \A i \in 1..Len(batch.promises) : p.tasks[batch.promises[i]].state = "resolved"
     THEN [p EXCEPT !.batches[b].state = "resolved",
                    !.batches[b].result =
                       [i \in 1..Len(batch.promises) |-> p.tasks[batch.promises[i]].results[1]]]
     ELSE p

\* task.resolve(data) and what awaits the task's promise
resolveTask(p, t, data) ==
  LET p1 == [p EXCEPT !.tasks[t].state = "resolved", !.tasks[t].results = Append(@, data)]
  IN IF p.tasks[t].batch = 0 THEN p1 ELSE BatchSettled(p1, p.tasks[t].batch)

\* The ready promise settles: Promise.all(initPromises), then the awaiters
\* of this.ready continue in the order they began to wait
readySettled(p) ==
  IF p.ready # "pending" THEN p
  ELSE IF \E w \in WorkerIds(p) : p.initPromises[w] = "rejected"
  THEN [p EXCEPT !.ready = "rejected", !.microtasks = @ \o p.waiters, !.waiters = <<>>]
  ELSE IF \A w \in WorkerIds(p) : p.initPromises[w] = "resolved"
  THEN [p EXCEPT !.ready = "resolved", !.microtasks = @ \o p.waiters, !.waiters = <<>>]
  ELSE p

awaitReadyNoGate(p, k) == [p EXCEPT !.microtasks = Append(@, k)]

\* await this.ready: the continuation waits for the gate, or is queued as a
\* microtask when the gate is already settled
awaitReady(p, k) ==
  IF p.ready = "pending" THEN [p EXCEPT !.waiters = Append(@, k)]
  ELSE [p EXCEPT !.microtasks = Append(@, k)]

setupWorker(p, w) ==
  [p EXCEPT !.available = Append(@, w), !.resultListener[w] = TRUE]

\* initWorkers' onMessage listener of worker w
initOnMessage(p, w, msg) ==
  IF msg.type = "ready"
  THEN LET p1 == setupWorker([p EXCEPT !.initListener[w] = FALSE], w)
       IN readySettled([p1 EXCEPT !.initPromises[w] =
                                   IF @ = "pending" THEN "resolved" ELSE @])
  ELSE p

initOnErrorIgnored(p, w) == p

\* worker.on('error', reject)
initOnError(p, w) ==
  readySettled([p EXCEPT !.initPromises[w] = IF @ = "pending" THEN "rejected" ELSE @])

resultOnMessageNewestFirst(p, w, msg) ==
  IF msg.type = "result"
  THEN LET p1 == IF p.workerTasks[w] # <<>>
                 THEN resolveTask([p EXCEPT !.workerTasks[w] = <<>>],
                                  p.workerTasks[w][1], msg)
                 ELSE p
       IN IF p1.taskQueue # <<>>
          THEN dispatchToWorker([p1 EXCEPT !.taskQueue = SubSeq(@, 1, Len(@) - 1)], w,
                                p1.taskQueue[Len(p1.taskQueue)])
          ELSE [p1 EXCEPT !.available = Append(@, w)]
  ELSE p

\* setupWorker's message listener of worker w
resultOnMessage(p, w, msg) ==
  IF msg.type = "result"
  THEN LET p1 == IF p.workerTasks[w] # <<>>
                 THEN resolveTask([p EXCEPT !.workerTasks[w] = <<>>],
                                  p.workerTasks[w][1], msg)
                 ELSE p
       IN IF p1.taskQueue # <<>>
          THEN dispatchToWorker([p1 EXCEPT !.taskQueue = Tail(@)], w, Head(p1.taskQueue))
          ELSE [p1 EXCEPT !.available = Append(@, w)]
  ELSE p

\* dispose's await Promise.all(disposePromises) and the lines after it
disposeSettled(p) ==
  IF /\ p.disposed = "pending"
     /\ \A w \in 1..Len(p.workers) : p.disposePromises[p.workers[w]] = "resolved"
  THEN [p EXCEPT !.disposed = "resolved", !.workers = <<>>, !.available = <<>>]
  ELSE p

\* dispose's message listener of worker w: worker.once on Node, a listener
\* that removes itself on 'disposed' on Deno
disposeOnMessage(p, w, msg, ahead) ==
  LET p1 == IF p.platform = "node" \/ msg.type = "disposed"
            THEN [p EXCEPT !.disposeListener[w] = FALSE] ELSE p
  IN IF msg.type = "disposed"
     THEN disposeSettled([terminate(p1, w, ahead) EXCEPT !.disposePromises[w] = "resolved"])
     ELSE p1

\* The oldest undelivered event of worker w reaches the pool's listeners that
\* were registered when it was emitted
onWorkerEvent(p, w, ahead) ==
  LET msg == Head(p.fromWorker[w])
      p0 == [p EXCEPT !.fromWorker[w] = Tail(@)]
      p1 == IF p.initListener[w] THEN initOnMessage(p0, w, msg) ELSE p0
      p2 == IF p.resultListener[w] THEN resultOnMessage(p1, w, msg) ELSE p1
      p3 == IF p.disposeListener[w] THEN disposeOnMessage(p2, w, msg, ahead) ELSE p2
  IN IF msg.type = "error" THEN initOnError(p0, w) ELSE p3

poolGenerateGlyphKeepsIdle(p, t) ==
  IF p.ready = "rejected" THEN [p EXCEPT !.tasks[t].state = "rejected"]
  ELSE IF p.available # <<>>
  THEN dispatchToWorker(p, p.available[Len(p.available)], t)
  ELSE [p EXCEPT !.taskQueue = Append(@, t), !.tasks[t].state = "queued"]

\* generateGlyph after its await: rejected with the gate, or the executor of
\* the promise it returns
poolGenerateGlyph(p, t) ==
  IF p.ready = "rejected" THEN [p EXCEPT !.tasks[t].state = "rejected"]
  ELSE IF p.available # <<>>
  THEN dispatchToWorker([p EXCEPT !.available = SubSeq(@, 1, Len(@) - 1)],
                        p.available[Len(p.available)], t)
  ELSE [p EXCEPT !.taskQueue = Append(@, t), !.tasks[t].state = "queued"]

RECURSIVE generateBatchMap(_, _, _)
\* chars.map(charCode => this.generateGlyph(charCode, ...)) from index i on
generateBatchMap(p, b, i) ==
  IF i > Len(p.batches[b].chars) THEN p
  ELSE LET t == Len(p.tasks) + 1
           p1 == [p EXCEPT !.tasks = Append(@, NewTask(p.batches[b].chars[i], b)),
                           !.batches[b].promises = Append(@, t)]
       IN generateBatchMap(awaitReady(p1, Continuation("glyph", t)), b, i + 1)

\* generateBatch after its await
poolGenerateBatch(p, b) ==
  IF p.ready = "rejected" THEN [p EXCEPT !.batches[b].state = "rejected"]
  ELSE BatchSettled(generateBatchMap([p EXCEPT !.batches[b].state = "running"], b, 1), b)

PoolInit ==
  /\ NewFontAtlas
  /\ clientFont = "f1"
  /\ sel = NoSel
  /\ shelf = NoShelf
  /\ \E platform \in Platforms, n \in 0..MaxWorkers : pool = initWorkers(platform, n)

AtlasIdle ==
  UNCHANGED <<atlases, pendingGlyphs, batchPromise, tasks, nextTexture, loadedFont,
              ret, clientFont, sel, textures, shelf>>

\* The client calls the pool from a turn of the event loop (no microtask is
\* left) and does not use a pool it has disposed
ClientTurn == pool.microtasks = <<>> /\ pool.disposed = "none"

\* pool.generateGlyph(charCode, ...) up to its await
PoolGenerateGlyph(charCode) ==
  /\ ClientTurn
  /\ Len(pool.tasks) < MaxPoolTasks
  /\ pool' = awaitReady([pool EXCEPT !.tasks = Append(@, NewTask(charCode, 0))],
                        Continuation("glyph", Len(pool.tasks) + 1))
  /\ AtlasIdle

\* pool.generateBatch(chars, ...) up to its await
PoolGenerateBatch(chars) ==
  /\ ClientTurn
  /\ pool.batches = <<>>
  /\ Len(pool.tasks) + Len(chars) <= MaxPoolTasks
  /\ pool' = awaitReady([pool EXCEPT !.batches = Append(@, NewBatch(chars))],
                        Continuation("batch", Len(pool.batches) + 1))
  /\ AtlasIdle

\* The next microtask: a call continues after its await
PoolContinue ==
  /\ pool.microtasks # <<>>
  /\ LET k == Head(pool.microtasks)
         p == [pool EXCEPT !.microtasks = Tail(@)]
     IN pool' = IF k.kind = "glyph" THEN poolGenerateGlyph(p, k.id) ELSE poolGenerateBatch(p, k.id)
  /\ AtlasIdle

\* A worker has answered the next message it received, and the event loop
\* delivers the answer (a macrotask: it runs when no microtask is left). The
\* worker runs in its own thread: when the answer is delivered it has
\* answered `ahead` of the messages behind it as well.
WorkerReply(w) ==
  /\ pool.microtasks = <<>>
  /\ pool.workerState[w] = "alive"
  /\ pool.toWorker[w] # <<>>
  /\ \E ahead \in 0..(Len(pool.toWorker[w]) - 1) :
       pool' = onWorkerEvent(
                 [pool EXCEPT !.toWorker[w] = Tail(@),
                              !.fromWorker[w] = Append(@, answerTo(Head(pool.toWorker[w]), w))],
                 w, ahead)
  /\ AtlasIdle

\* The event loop delivers an answer that worker w posted before it was
\* terminated
LateAnswer(w) ==
  /\ pool.microtasks = <<>>
  /\ pool.workerState[w] = "terminated"
  /\ pool.fromWorker[w] # <<>>
  /\ pool' = onWorkerEvent(pool, w, 0)
  /\ AtlasIdle

\* A worker fails to initialise: it is gone, and the event loop delivers its
\* error event
WorkerInitError(w) ==
  /\ pool.microtasks = <<>>
  /\ pool.workerState[w] = "alive"
  /\ pool.toWorker[w] # <<>>
  /\ Head(pool.toWorker[w]).type = "init"
  /\ pool' = onWorkerEvent(
               [pool EXCEPT !.workerState[w] = "failed", !.toWorker[w] = <<>>,
                            !.fromWorker[w] = Append(@, Msg("error", 0, w))], w, 0)
  /\ AtlasIdle

\* pool.dispose() up to its await
PoolDispose ==
  /\ ClientTurn
  /\ LET ws == {pool.workers[i] : i \in 1..Len(pool.workers)}
         p1 == [pool EXCEPT !.disposed = "pending",
                            !.disposeListener = [w \in WorkerIds(pool) |-> w \in ws],
                            !.disposePromises =
                               [w \in WorkerIds(pool) |-> IF w \in ws THEN "pending" ELSE "none"],
                            !.toWorker = [w \in WorkerIds(pool) |->
                               IF w \in ws /\ pool.workerState[w] = "alive"
                               THEN Append(pool.toWorker[w], Msg("dispose", 0, w))
                               ELSE pool.toWorker[w]]]
     IN pool' = disposeSettled(p1)
  /\ AtlasIdle

\* The batches the client asks for: distinct characters, in any order
BatchInputs ==
  UNION {{chars \in [1..n -> PoolChars] : \A i, j \in 1..n : chars[i] = chars[j] => i = j} :
           n \in 0..MaxPoolTasks}

PoolNext ==
  \/ \E c \in PoolChars : PoolGenerateGlyph(c)
  \/ \E chars \in BatchInputs : PoolGenerateBatch(chars)
  \/ PoolContinue
  \/ \E w \in WorkerIds(pool) : WorkerReply(w)
  \/ \E w \in WorkerIds(pool) : LateAnswer(w)
  \/ \E w \in WorkerIds(pool) : WorkerInitError(w)
  \/ PoolDispose

PoolSpec == PoolInit /\ [][PoolNext]_vars

\* ---------------------------------------------------------------------
\* The WorkerPool under more calls than it has workers: generateGlyph calls
\* for one character, so that tasks wait in the overflow FIFO while every
\* worker is busy.
\* ---------------------------------------------------------------------
OverflowChar == 65

\* pool.generateGlyph(OverflowChar, ...) up to its await
OverflowGenerateGlyph ==
  /\ ClientTurn
  /\ Len(pool.tasks) < MaxOverflowTasks
  /\ pool' = awaitReady([pool EXCEPT !.tasks = Append(@, NewTask(OverflowChar, 0))],
                        Continuation("glyph", Len(pool.tasks) + 1))
  /\ AtlasIdle

OverflowNext ==
  \/ OverflowGenerateGlyph
  \/ PoolContinue
  \/ \E w \in WorkerIds(pool) : WorkerReply(w)
  \/ \E w \in WorkerIds(pool) : LateAnswer(w)
  \/ \E w \in WorkerIds(pool) : WorkerInitError(w)
  \/ PoolDispose

OverflowSpec == PoolInit /\ [][OverflowNext]_vars

\* ---------------------------------------------------------------------
\* The WorkerPool in service: initialisation succeeds, dispose is never
\* called, the event loop keeps running its microtasks and every worker
\* keeps answering the messages it received.
\* ---------------------------------------------------------------------
ServiceNext ==
  \/ OverflowGenerateGlyph
  \/ PoolContinue
  \/ \E w \in WorkerIds(pool) : WorkerReply(w)

ServiceSpec ==
  /\ PoolInit
  /\ [][ServiceNext]_vars
  /\ WF_vars(PoolContinue)
  /\ \A w \in 1..MaxWorkers : WF_vars(w \in WorkerIds(pool) /\ WorkerReply(w))

\* ---------------------------------------------------------------------
\* The Node and the Deno WorkerPool side by side: pool.node and pool.deno are
\* constructed with the same options and driven by the same client calls and
\* the same worker events. A call or event is taken when it is possible on
\* both; a worker's event is its answer to the message both pools sent it.
\* ---------------------------------------------------------------------
\* pool.generateGlyph(charCode, ...) up to its await
generateGlyphCall(p, charCode) ==
  awaitReady([p EXCEPT !.tasks = Append(@, NewTask(charCode, 0))],
             Continuation("glyph", Len(p.tasks) + 1))

\* pool.generateBatch(chars, ...) up to its await
generateBatchCall(p, chars) ==
  awaitReady([p EXCEPT !.batches = Append(@, NewBatch(chars))],
             Continuation("batch", Len(p.batches) + 1))

\* pool.dispose() up to its await
disposeCall(p) ==
  LET ws == {p.workers[i] : i \in 1..Len(p.workers)}
  IN disposeSettled(
       [p EXCEPT !.disposed = "pending",
                 !.disposeListener = [w \in WorkerIds(p) |-> w \in ws],
                 !.disposePromises =
                    [w \in WorkerIds(p) |-> IF w \in ws THEN "pending" ELSE "none"],
                 !.toWorker = [w \in WorkerIds(p) |->
                    IF w \in ws /\ p.workerState[w] = "alive"
                    THEN Append(p.toWorker[w], Msg("dispose", 0, w))
                    ELSE p.toWorker[w]]])

\* The next microtask of pool p: a call continues after its await
runMicrotask(p) ==
  LET k == Head(p.microtasks)
      p1 == [p EXCEPT !.microtasks = Tail(@)]
  IN IF k.kind = "glyph" THEN poolGenerateGlyph(p1, k.id) ELSE poolGenerateBatch(p1, k.id)

\* Worker w answers the next message it received from pool p and the event
\* loop delivers the answer; the worker has then answered `ahead` of the
\* messages behind it
workerAnswers(p, w, ahead) ==
  onWorkerEvent(
    [p EXCEPT !.toWorker[w] = Tail(@),
              !.fromWorker[w] = Append(@, answerTo(Head(p.toWorker[w]), w))],
    w, ahead)

\* Worker w of pool p fails to initialise and its error event is delivered
workerFails(p, w) ==
  onWorkerEvent(
    [p EXCEPT !.workerState[w] = "failed", !.toWorker[w] = <<>>,
              !.fromWorker[w] = Append(@, Msg("error", 0, w))], w, 0)

Twins == {pool.node, pool.deno}

TwinInit ==
  /\ NewFontAtlas
  /\ clientFont = "f1"
  /\ sel = NoSel
  /\ shelf = NoShelf
  /\ \E n \in 0..MaxWorkers :
       pool = [platform |-> "twin", node |-> initWorkers("node", n),
               deno |-> initWorkers("deno", n)]

TwinClientTurn == \A p \in Twins : p.microtasks = <<>> /\ p.disposed = "none"

TwinGenerateGlyph(charCode) ==
  /\ TwinClientTurn
  /\ \A p \in Twins : Len(p.tasks) < MaxPoolTasks
  /\ pool' = [pool EXCEPT !.node = generateGlyphCall(@, charCode),
                          !.deno = generateGlyphCall(@, charCode)]
  /\ AtlasIdle

TwinGenerateBatch(chars) ==
  /\ TwinClientTurn
  /\ \A p \in Twins : p.batches = <<>> /\ Len(p.tasks) + Len(chars) <= MaxPoolTasks
  /\ pool' = [pool EXCEPT !.node = generateBatchCall(@, chars),
                          !.deno = generateBatchCall(@, chars)]
  /\ AtlasIdle

TwinDispose ==
  /\ TwinClientTurn
  /\ pool' = [pool EXCEPT !.node = disposeCall(@), !.deno = disposeCall(@)]
  /\ AtlasIdle

TwinContinue ==
  /\ \A p \in Twins : p.microtasks # <<>>
  /\ pool' = [pool EXCEPT !.node = runMicrotask(@), !.deno = runMicrotask(@)]
  /\ AtlasIdle

TwinWorkerReply(w) ==
  /\ \A p \in Twins :
       /\ p.microtasks = <<>>
       /\ p.workerState[w] = "alive"
       /\ p.toWorker[w] # <<>>
  /\ Head(pool.node.toWorker[w]) = Head(pool.deno.toWorker[w])
  /\ \E ahead \in 0..(Len(pool.node.toWorker[w]) - 1) :
       pool' = [pool EXCEPT !.node = workerAnswers(@, w, ahead),
                            !.deno = workerAnswers(@, w, ahead)]
  /\ AtlasIdle

\* Both event loops deliver an answer that worker w posted before it was
\* terminated
TwinLateAnswer(w) ==
  /\ \A p \in Twins :
       /\ p.microtasks = <<>>
       /\ p.workerState[w] = "terminated"
       /\ p.fromWorker[w] # <<>>
  /\ Head(pool.node.fromWorker[w]) = Head(pool.deno.fromWorker[w])
  /\ pool' = [pool EXCEPT !.node = onWorkerEvent(@, w, 0), !.deno = onWorkerEvent(@, w, 0)]
  /\ AtlasIdle

TwinWorkerInitError(w) ==
  /\ \A p \in Twins :
       /\ p.microtasks = <<>>
       /\ p.workerState[w] = "alive"
       /\ p.toWorker[w] # <<>>
       /\ Head(p.toWorker[w]).type = "init"
  /\ pool' = [pool EXCEPT !.node = workerFails(@, w), !.deno = workerFails(@, w)]
  /\ AtlasIdle

TwinNext ==
  \/ \E c \in PoolChars : TwinGenerateGlyph(c)
  \/ \E chars \in BatchInputs : TwinGenerateBatch(chars)
  \/ TwinDispose
  \/ TwinContinue
  \/ \E w \in WorkerIds(pool.node) : TwinWorkerReply(w)
  \/ \E w \in WorkerIds(pool.node) : TwinLateAnswer(w)
  \/ \E w \in WorkerIds(pool.node) : TwinWorkerInitError(w)

TwinSpec == TwinInit /\ [][TwinNext]_vars

\* ---------------------------------------------------------------------
\* A Page on its own: any sequence of tryAdd calls with glyphs that a blank
\* page takes within its bounds (width and height plus padding at most the
\* page's). shelf.row holds the heights of the glyphs placed in the current
\* shelf row, shelf.ok whether the last call returned a position, and
\* shelf.placed the rectangles of the calls that returned one, in call order.
\* ---------------------------------------------------------------------
PageSizes == (padding + 1)..MaxShelf

GlyphSizes(size) == 1..(size - padding)

PageInit ==
  /\ NewFontAtlas
  /\ clientFont = "f1"
  /\ sel = NoSel
  /\ pool = NoPool
  /\ \E W, H \in PageSizes :
       shelf = [page |-> <<NewPage(1, W, H)>>, row |-> {}, ok |-> <<>>,
                placed |-> <<>>]

\* page.tryAdd(pixels, w, h)
PageTryAdd(w, h) ==
  /\ \E r \in {tryAdd(shelf.page[1], w, h)} :
       shelf' = [page |-> <<r.page>>,
                 row |-> (IF r.page.cursorY # shelf.page[1].cursorY THEN {} ELSE shelf.row)
                         \cup (IF r.ok THEN {h} ELSE {}),
                 ok |-> <<r.ok>>,
                 placed |-> IF r.ok
                            THEN Append(shelf.placed,
                                        [x |-> r.x, y |-> r.y, w |-> w, h |-> h])
                            ELSE shelf.placed]
  /\ UNCHANGED <<atlases, pendingGlyphs, batchPromise, tasks, nextTexture, loadedFont,
                 ret, clientFont, sel, pool, textures>>

PageNext ==
  \E w \in GlyphSizes(shelf.page[1].width), h \in GlyphSizes(shelf.page[1].height) :
    PageTryAdd(w, h)

PageSpec == PageInit /\ [][PageNext]_vars

\* ---------------------------------------------------------------------
\* Helpers of the properties
\* ---------------------------------------------------------------------
KeyOf(pending) == AtlasKey(pending.variantId, pending.genSize)

\* getGlyph would answer cached=true for cp in the atlas of key k
Ready(k, cp) == k \in DOMAIN atlases /\ atlasGetGlyph(atlases[k], cp) # <<>>

IsPending(k, cp) == k \in DOMAIN atlases /\ cp \in atlases[k].pendingGlyphs

\* Render sizes that select the generation size g
SizesFor(g) == {r \in 1..(Config.genSizes[Len(Config.genSizes)] + 1) : selectGenSize(r) = g}

AllPages(a) == a.latinPage \o a.mixedPages

\* The entries a drain starting now takes
Batch == {pendingGlyphs[i] : i \in 1..Len(pendingGlyphs)}

\* ---------------------------------------------------------------------
\* Properties
\* ---------------------------------------------------------------------

\* C1 (as claimed): the pending FIFO never holds two entries for the same
\* (variantId, genSize, code point).
C1_NoDuplicateEntry ==
  \A i, j \in 1..Len(pendingGlyphs) :
    (i # j) =>
      ~(/\ KeyOf(pendingGlyphs[i]) = KeyOf(pendingGlyphs[j])
        /\ pendingGlyphs[i].codePoint = pendingGlyphs[j].codePoint)

\* C2 (as claimed): a drain invokes onGlyphsReady exactly once when it began
\* with a non-empty FIFO and never when it began empty.
C2_OncePerNonEmptyDrain ==
  (ret.op = "processBatch") =>
    (ret.callbacks = IF ret.taken > 0 THEN 1 ELSE 0)

\* What a repeat getGlyph answers for a drained entry: cached, with real
\* metrics unless the glyph is missing or empty
RepeatIsCached(pending) ==
  \A r \in SizesFor(pending.genSize) :
    LET info == getGlyphResult(pending.codePoint, pending.variantId, r).info
    IN /\ info.cached
       /\ (info.metrics.width > 0 \/ info.missing \/ info.empty)

\* C3 (as claimed): after a miss and the drain of its batch, a repeat getGlyph
\* yields cached=true and non-placeholder metrics unless missing or empty.
C3_CachedAfterDrain ==
  [][(ret'.op = "processBatch") =>
       \A e \in Batch : RepeatIsCached(e)']_vars

\* C4 (as claimed): when onGlyphsReady is invoked, no code point whose miss
\* was enqueued before the drain's snapshot is still pending (every miss so
\* far was enqueued before it, so no code point is pending at all).
C4_NothingPendingAtCallback ==
  (ret.op = "processBatch" /\ ret.callbacks = 1) =>
    \A k \in DOMAIN atlases : atlases[k].pendingGlyphs = {}

\* C5 (as claimed): the texture handle a miss returned (the one the pending
\* Location holds) is the handle the code point has once the drain filled it.
C5_StableHandle ==
  [][(ret'.op = "processBatch") =>
       \A k \in DOMAIN atlases : \A cp \in atlases[k].pendingGlyphs :
         (Ready(k, cp)' /\ ~atlases'[k].glyphIndex[cp][1].empty) =>
            atlases'[k].glyphIndex[cp][1].page.texture =
              atlases[k].glyphIndex[cp][1].page.texture]_vars

\* C6 (as claimed): every cached rectangle lies within its page.
C6_RectInPage ==
  \A k \in DOMAIN atlases : \A cp \in CodePoints :
    (atlases[k].glyphIndex[cp] # <<>>) =>
      LET loc == atlases[k].glyphIndex[cp][1]
      IN /\ 0 <= loc.x /\ 0 <= loc.y
         /\ loc.x + loc.width <= loc.page.width
         /\ loc.y + loc.height <= loc.page.height

\* C7: after prefabLatin returned, getGlyph answers cached=true for each of
\* the 62 Latin code points of that variant at every render size that selects
\* the same generation size.
C7_PrefabCachesLatin ==
  (ret.op = "prefabLatin" /\ ~ret.threw) =>
    \A cp \in LatinSet : \A r \in SizesFor(ret.key[2]) :
      getGlyphResult(cp, ret.key[1], r).info.cached

\* C7 witness: prefabLatin returned while a Latin code point of that variant
\* was still queued from an earlier miss, and it generated a glyph.
C7_Witness ==
  /\ ret.op = "prefabLatin" /\ ~ret.threw
  /\ \E i \in 1..Len(pendingGlyphs) :
       KeyOf(pendingGlyphs[i]) = ret.key /\ isLatinChar(pendingGlyphs[i].codePoint)
  /\ \E cp \in LatinSet :
       Ready(ret.key, cp) /\ ~atlases[ret.key].glyphIndex[cp][1].empty

\* C8: prefabLatin leaves the FIFO and the drain task as they were, invokes no
\* callback and does not change hasPendingWork.
C8_PrefabLeavesScheduler ==
  [][(ret'.op = "prefabLatin") =>
       /\ pendingGlyphs' = pendingGlyphs
       /\ batchPromise' = batchPromise
       /\ tasks' = tasks
       /\ ret'.callbacks = 0
       /\ hasPendingWork' = hasPendingWork]_vars

\* C8 witness: prefabLatin ran while a FIFO entry and its drain were outstanding.
C8_Witness ==
  ret.op = "prefabLatin" /\ pendingGlyphs # <<>> /\ batchPromise /\ tasks > 0

\* The state an entry of a drained batch must be in, by the oracle's answer.
EntryOutcome(m, pending) ==
  LET k == KeyOf(pending)
      cp == pending.codePoint
      glyph == generateMTSDF(pending.fontBuffer, cp, pending.genSize)
      loc == m[k].glyphIndex[cp][1]
  IN /\ k \in DOMAIN m
     /\ cp \notin m[k].pendingGlyphs
     /\ m[k].glyphIndex[cp] # <<>>
     /\ IF ~hasGlyph(pending.fontBuffer, cp)
        THEN loc.missing /\ loc.empty /\ loc.width = 0 /\ loc.height = 0
        ELSE IF ~glyph.ok
        THEN loc.empty /\ ~loc.missing
        ELSE ~loc.empty /\ ~loc.missing /\ loc.metrics = MetricsOf(glyph)

\* C9 (as claimed): every entry of a drain ends cached and not pending:
\* missing and empty with zero size when the font lacks the glyph, empty and
\* not missing when generation returns null, else filled with the oracle's
\* metrics.
C9_DrainOutcome ==
  [][(ret'.op = "processBatch") =>
       \A e \in Batch : EntryOutcome(atlases', e)]_vars

\* No page that existed is changed, and a page that was created is blank
PagesUnwritten ==
  \A k \in DOMAIN atlases' :
    LET new == AllPages(atlases'[k])
        old == IF k \in DOMAIN atlases THEN AllPages(atlases[k]) ELSE <<>>
    IN \A i \in 1..Len(new) :
         \/ \E j \in 1..Len(old) : old[j] = new[i]
         \/ new[i] = NewPage(new[i].texture, Config.pageSize, Config.pageSize)

\* C10: a getGlyph miss returns cached=false, missing=false, empty=false and a
\* texture handle; it writes no page and invokes no callback (only the drain,
\* at a later tick, does).
C10_MissReturnsPlaceholder ==
  [][(ret'.op = "getGlyph" /\ ~ret'.info.cached) =>
       /\ ~ret'.info.missing /\ ~ret'.info.empty
       /\ ret'.info.texture # NoTexture
       /\ ret'.callbacks = 0
       /\ tasks' >= tasks /\ tasks' > 0
       /\ PagesUnwritten]_vars

\* C10 witness: a miss returned a placeholder and its drain is still to come.
C10_Witness ==
  /\ ret.op = "getGlyph" /\ ~ret.info.cached /\ ret.info.texture # NoTexture
  /\ tasks > 0 /\ IsPending(ret.key, ret.codePoint)

\* C11: selectGenSize returns genSizes[i] for the smallest i whose threshold is
\* at least the render size, and the last generation size when there is none,
\* for every configuration with one threshold less than generation sizes.
C11_SelectGenSize ==
  (sel.result # <<>>) =>
    LET th == sel.config.sizeThresholds
        gs == sel.config.genSizes
        hits == {i \in 1..Len(th) : th[i] >= sel.renderSize}
    IN /\ Len(th) = Len(gs) - 1
       /\ (hits # {}) =>
            \E i \in hits : (\A j \in hits : i <= j) /\ sel.result[1] = gs[i]
       /\ (hits = {}) => sel.result[1] = gs[Len(gs)]

\* C11 witness: a render size equal to the second threshold and above the
\* first selects the second generation size, which differs from the others.
C11_Witness ==
  /\ sel.result # <<>>
  /\ Len(sel.config.sizeThresholds) = 2
  /\ sel.config.sizeThresholds[1] < sel.renderSize
  /\ sel.config.sizeThresholds[2] = sel.renderSize
  /\ sel.config.genSizes[1] # sel.config.genSizes[2]
  /\ sel.config.genSizes[3] # sel.config.genSizes[2]
  /\ sel.result[1] = sel.config.genSizes[2]

\* ---------------------------------------------------------------------
\* Properties of the WorkerPool
\* ---------------------------------------------------------------------

\* Nothing is left to run: no microtask, no message a live worker has yet to
\* answer, no event the pool has yet to handle
Quiescent ==
  /\ pool.microtasks = <<>>
  /\ \A w \in WorkerIds(pool) :
       /\ pool.fromWorker[w] = <<>>
       /\ (pool.workerState[w] = "alive") => (pool.toWorker[w] = <<>>)

\* The pool's gate opened and dispose was never called
PoolInService == pool.ready = "resolved" /\ pool.disposed = "none"

\* A resolved batch holds one result per character, result i being the value
\* task i was resolved with, for character i
BatchResultInOrder(b) ==
  LET batch == pool.batches[b]
  IN (batch.state = "resolved") =>
       /\ Len(batch.result) = Len(batch.chars)
       /\ \A i \in 1..Len(batch.chars) :
            /\ batch.result[i].charCode = batch.chars[i]
            /\ batch.result[i] = pool.tasks[batch.promises[i]].results[1]

\* C12 (as claimed): generateBatch(chars) resolves, for every worker count, to
\* |chars| results with result i the result for chars[i]: a resolved batch is
\* in input order, and once nothing is left to run every batch of a pool in
\* service has resolved.
C12_BatchResolvesInOrder ==
  \A b \in 1..Len(pool.batches) :
    /\ BatchResultInOrder(b)
    /\ (Quiescent /\ PoolInService) => (pool.batches[b].state = "resolved")

\* Each task was sent at most once and resolved at most once, with the result
\* message of the worker it was sent to, for its own character
TaskAtMostOnce(t) ==
  LET task == pool.tasks[t]
  IN /\ Len(task.sentTo) <= 1
     /\ Len(task.results) <= 1
     /\ (task.results # <<>>) =>
          /\ Len(task.sentTo) = 1
          /\ task.results[1].type = "result"
          /\ task.results[1].worker = task.sentTo[1]
          /\ task.results[1].charCode = task.charCode

\* C13: no duplicated work in the pool: a task is sent as a generate message
\* to one worker once and resolved once with that worker's result for its
\* character; in a pool with workers that is in service, once nothing is left
\* to run every task has been sent and resolved.
C13_NoDuplicatedWork ==
  \A t \in 1..Len(pool.tasks) :
    /\ TaskAtMostOnce(t)
    /\ (Quiescent /\ PoolInService /\ pool.numWorkers >= 1) =>
         (Len(pool.tasks[t].sentTo) = 1 /\ Len(pool.tasks[t].results) = 1)

\* C13 witness: a single worker served two tasks for different characters,
\* the second one through the overflow queue.
C13_Witness ==
  /\ pool.numWorkers = 1
  /\ Len(pool.tasks) = 2
  /\ pool.tasks[1].charCode # pool.tasks[2].charCode
  /\ \A t \in 1..2 : pool.tasks[t].state = "resolved" /\ pool.tasks[t].sentTo = <<1>>

GenerateInFlight ==
  \E w \in WorkerIds(pool) :
    \E i \in 1..Len(pool.toWorker[w]) : pool.toWorker[w][i].type = "generate"

\* C14: a worker is on the idle stack only after its own ready reply, and no
\* generate message is sent before all workers have replied ready.
C14_InitGate ==
  /\ \A i \in 1..Len(pool.available) : pool.initPromises[pool.available[i]] = "resolved"
  /\ ((\E t \in 1..Len(pool.tasks) : pool.tasks[t].sentTo # <<>>) \/ GenerateInFlight) =>
       \A w \in WorkerIds(pool) : pool.initPromises[w] = "resolved"

\* C14 witness: two workers, the second replied ready first (so the first is
\* on top of the idle stack) and the first call was dispatched to worker 1.
C14_Witness ==
  /\ pool.numWorkers = 2
  /\ Len(pool.tasks) >= 1
  /\ pool.tasks[1].sentTo = <<1>>
  /\ pool.available = <<2>>

\* C15: a worker error event during initialisation rejects the gate, and on a
\* pool whose gate is rejected every call rejects, no generate message is
\* sent and no task is left in the overflow queue.
C15_InitFailureRejects ==
  /\ (\E w \in WorkerIds(pool) : pool.workerState[w] = "failed" /\ pool.fromWorker[w] = <<>>)
       => (pool.ready = "rejected")
  /\ (pool.ready = "rejected") =>
       /\ pool.taskQueue = <<>>
       /\ ~GenerateInFlight
       /\ \A t \in 1..Len(pool.tasks) :
            /\ pool.tasks[t].sentTo = <<>>
            /\ pool.tasks[t].state \in {"awaiting", "rejected"}
            /\ (pool.microtasks = <<>>) => (pool.tasks[t].state = "rejected")
       /\ \A b \in 1..Len(pool.batches) :
            /\ pool.batches[b].state \in {"awaiting", "rejected"}
            /\ (pool.microtasks = <<>>) => (pool.batches[b].state = "rejected")

\* C15 witness: the gate is rejected while another worker sits on the idle
\* stack; a generateGlyph call and a generateBatch call were both rejected.
C15_Witness ==
  /\ pool.ready = "rejected"
  /\ pool.available # <<>>
  /\ \E t \in 1..Len(pool.tasks) : pool.tasks[t].state = "rejected"
  /\ \E b \in 1..Len(pool.batches) :
       pool.batches[b].state = "rejected" /\ pool.batches[b].chars # <<>>

\* C16 (as claimed): dispose, called in any pool state, terminates every
\* worker and its promise resolves, provided every worker answers what it
\* received: once dispose was called and nothing is left to run, the dispose
\* promise is resolved and every worker is terminated.
C16_DisposeTerminates ==
  (/\ pool.disposed # "none"
   /\ Quiescent
   /\ \A w \in WorkerIds(pool) : pool.workerState[w] # "failed") =>
     /\ pool.disposed = "resolved"
     /\ \A w \in WorkerIds(pool) : pool.workerState[w] = "terminated"

\* ---------------------------------------------------------------------
\* Properties of the FontAtlas scheduler and of the glyph state machine
\* ---------------------------------------------------------------------

\* C17 (as claimed): hasPendingWork is true iff the FIFO is non-empty or a
\* scheduled drain task has not yet run.
C17_PendingWorkIffOutstanding ==
  hasPendingWork <=> (Len(pendingGlyphs) > 0 \/ tasks > 0)

\* C18 (as claimed): at most one drain task is scheduled and not yet run.
C18_SingleFlightDrain == tasks <= 1

\* The state of code point cp in the atlas of key k
GlyphState(k, cp) ==
  IF k \notin DOMAIN atlases THEN "absent"
  ELSE IF atlases[k].glyphIndex[cp] = <<>> THEN "absent"
  ELSE IF cp \in atlases[k].pendingGlyphs THEN "pending"
  ELSE IF atlases[k].glyphIndex[cp][1].missing THEN "ready-missing"
  ELSE IF atlases[k].glyphIndex[cp][1].empty THEN "ready-empty"
  ELSE "ready"

ReadyStates == {"ready", "ready-empty", "ready-missing"}

AllKeys == {AtlasKey(v, Config.genSizes[i]) : v \in Variants, i \in 1..Len(Config.genSizes)}

\* C19 (as claimed): a code point moves only absent -> pending -> ready*, or
\* absent -> ready* directly through prefabLatin; a ready* state is kept by
\* every getGlyph, prefabLatin and drain, until dispose.
C19_GlyphStateMachine ==
  [][(ret'.op # "dispose") =>
       \A k \in AllKeys : \A cp \in CodePoints :
         \E from \in {GlyphState(k, cp)} : \E to \in {GlyphState(k, cp)'} :
           \/ to = from
           \/ from = "absent" /\ to = "pending"
           \/ from = "pending" /\ to \in ReadyStates
           \/ from = "absent" /\ to \in ReadyStates /\ ret'.op = "prefabLatin"]_vars

\* C20: a getGlyph for a code point in a ready* state returns the cached info
\* and leaves the FIFO, the drain task, the glyph index, the pending set, the
\* pages and the texture factory as they were.
C20_HitChangesNothing ==
  [][(ret'.op = "getGlyph" /\ GlyphState(ret'.key, ret'.codePoint) \in ReadyStates) =>
       /\ ret'.info.cached
       /\ UNCHANGED <<atlases, pendingGlyphs, batchPromise, tasks, nextTexture,
                      loadedFont>>]_vars

\* C20 witness: getGlyph answered from the cache with a filled glyph while
\* another request was still queued.
C20_Witness ==
  /\ ret.op = "getGlyph"
  /\ ret.info.cached
  /\ ret.info.metrics.width > 0
  /\ pendingGlyphs # <<>>

\* C21 (as claimed): the Location the index holds for a code point is the
\* object created at its first reservation; no call replaces the object of a
\* code point by a new one.
C21_LocationIdentity == ret.replaced = {}

\* C22: when onGlyphsReady is invoked no page of any variant atlas is dirty:
\* every page written during the drain (or left dirty before it) had the
\* texture update issued after its last write.
C22_FlushBeforeCallback ==
  (ret.op = "processBatch" /\ ret.callbacks = 1) =>
    \A k \in DOMAIN atlases : ~hasDirtyPages(atlases[k])

\* C22 witness: a callback after a drain, with a Latin page and a mixed page
\* both written.
C22_Witness ==
  /\ ret.op = "processBatch" /\ ret.callbacks = 1
  /\ \E k \in DOMAIN atlases :
       /\ atlases[k].latinPage # <<>> /\ atlases[k].latinPage[1].cursorX > 0
       /\ \E i \in DOMAIN atlases[k].mixedPages : atlases[k].mixedPages[i].cursorX > 0

\* The Latin page and the mixed pages of atlas a hold the glyphs of their class
OnMixedPage(a, texture) ==
  \E i \in DOMAIN a.mixedPages : a.mixedPages[i].texture = texture

LatinSegregated(a) ==
  /\ Len(a.latinPage) <= 1
  /\ \A i \in DOMAIN a.latinPage : ~OnMixedPage(a, a.latinPage[i].texture)
  /\ \A cp \in CodePoints :
       (a.glyphIndex[cp] # <<>>) =>
         IF isLatinChar(cp)
         THEN /\ a.latinPage # <<>>
              /\ a.glyphIndex[cp][1].page.texture = a.latinPage[1].texture
         ELSE OnMixedPage(a, a.glyphIndex[cp][1].page.texture)

\* C23: a variant atlas has at most one Latin page, created only by the call
\* that reserves or adds its first Latin code point; every Latin code point's
\* Location references the Latin page's texture and every other code point's
\* Location the texture of one of the mixed pages.
C23_LatinSegregation ==
  /\ [](\A k \in DOMAIN atlases : LatinSegregated(atlases[k]))
  /\ [][\A k \in DOMAIN atlases' :
          (/\ atlases'[k].latinPage # <<>>
           /\ (k \notin DOMAIN atlases \/ atlases[k].latinPage = <<>>)) =>
            /\ ret'.op \in {"getGlyph", "prefabLatin"}
            /\ ret'.key = k
            /\ \E cp \in CodePoints :
                 isLatinChar(cp) /\ atlases'[k].glyphIndex[cp] # <<>>
            /\ (k \in DOMAIN atlases) =>
                 \A cp \in CodePoints :
                   isLatinChar(cp) => atlases[k].glyphIndex[cp] = <<>>]_vars

\* C23 witness: an atlas with a filled Latin glyph on its Latin page and
\* filled non-Latin glyphs on two different mixed pages.
C23_Witness ==
  \E k \in DOMAIN atlases :
    /\ \E cp \in CodePoints :
         /\ isLatinChar(cp) /\ Ready(k, cp)
         /\ atlases[k].glyphIndex[cp][1].width > 0
    /\ \E c1, c2 \in CodePoints :
         /\ ~isLatinChar(c1) /\ ~isLatinChar(c2)
         /\ Ready(k, c1) /\ Ready(k, c2)
         /\ atlases[k].glyphIndex[c1][1].width > 0
         /\ atlases[k].glyphIndex[c2][1].width > 0
         /\ atlases[k].glyphIndex[c1][1].page.texture #
              atlases[k].glyphIndex[c2][1].page.texture

\* Every pending code point of atlas a has an index entry
PendingIndexed(a) == \A cp \in a.pendingGlyphs : a.glyphIndex[cp] # <<>>

\* C24: in every state a variant atlas reaches through reserveGlyph, fillGlyph,
\* addGlyph and markEmpty, and in the state destroy leaves it in, every code
\* point of the pending set has an entry in the glyph index.
C24_PendingSubsetOfIndex ==
  \A k \in DOMAIN atlases :
    /\ PendingIndexed(atlases[k])
    /\ PendingIndexed(destroy(atlases[k]).a)

\* C24 witness: after prefabLatin (addGlyph, reserveGlyph and markEmpty ran) an
\* atlas still has a pending non-Latin code point besides its ready ones.
C24_Witness ==
  /\ ret.op = "prefabLatin"
  /\ \E cp \in atlases[ret.key].pendingGlyphs : ~isLatinChar(cp)
  /\ \E cp \in LatinSet : Ready(ret.key, cp)

\* The glyph the oracle generates for code point cp from the client's font
GlyphsOf(cp) ==
  {MetricsOf(generateMTSDF(f, cp, Config.genSizes[1])) : f \in
     {g \in {clientFont} : hasGlyph(g, cp) /\ generateMTSDF(g, cp, Config.genSizes[1]).ok}}

\* What the claim demands of the call that led from atlas a to context c
\* (fillGlyph or addGlyph of code point cp with the given metrics)
OverflowRaises(a, cp, metrics, c) ==
  LET g == getOrCreatePage(Ctx(a, nextTexture), isLatinChar(cp), metrics.height)
      first == tryAdd(PageOf(g.a, g.ref), metrics.width, metrics.height)
  IN /\ (isLatinChar(cp) /\ ~first.ok) =>
          /\ c.threw
          /\ c.a.mixedPages = a.mixedPages
          /\ c.a.glyphIndex = a.glyphIndex
     /\ (~isLatinChar(cp) /\ (metrics.width > Config.pageSize \/
                               metrics.height > Config.pageSize)) => c.threw

\* C25 (as claimed): fillGlyph and addGlyph raise an error, and leave a Latin
\* glyph off every other page, when the Latin page reports no fit; they raise
\* an error for a non-Latin glyph that a freshly allocated mixed page cannot
\* fit (a glyph wider or taller than a page).
C25_FatalOverflow ==
  \A k \in DOMAIN atlases : \A cp \in CodePoints : \A metrics \in GlyphsOf(cp) :
    /\ (cp \in atlases[k].pendingGlyphs) =>
         OverflowRaises(atlases[k], cp, metrics,
                        fillGlyph(Ctx(atlases[k], nextTexture), cp, metrics))
    /\ (atlasGetGlyph(atlases[k], cp) = <<>>) =>
         OverflowRaises(atlases[k], cp, metrics,
                        addGlyph(Ctx(atlases[k], nextTexture), cp, metrics))

\* The fillGlyph call the next drain starts with: its atlas, code point and
\* metrics (none when the FIFO is empty or its head is marked empty instead)
HeadFill ==
  {[a |-> atlases[KeyOf(e)], codePoint |-> e.codePoint,
    metrics |-> MetricsOf(generateGlyph(e.codePoint, e.genSize, e.fontBuffer))] :
     e \in {x \in {pendingGlyphs[i] : i \in 1..Len(pendingGlyphs) \cap {1}} :
              /\ KeyOf(x) \in DOMAIN atlases
              /\ hasGlyph(x.fontBuffer, x.codePoint)
              /\ generateGlyph(x.codePoint, x.genSize, x.fontBuffer).ok}}

\* The mixed page fillGlyph selects for the glyph reports no fit
MixedNoFit(a, codePoint, metrics) ==
  LET g == getOrCreatePage(Ctx(a, nextTexture), FALSE, metrics.height)
  IN /\ ~isLatinChar(codePoint)
     /\ ~tryAdd(PageOf(g.a, g.ref), metrics.width, metrics.height).ok

\* fillGlyph, leading from atlas a to context c, put the glyph on one new
\* mixed page and left every other Location as it was
PlacedOnNewPage(a, codePoint, c) ==
  LET n == Len(c.a.mixedPages)
  IN /\ ~c.threw
     /\ n = Len(a.mixedPages) + 1
     /\ c.a.latinPage = a.latinPage
     /\ codePoint \notin c.a.pendingGlyphs
     /\ c.a.glyphIndex[codePoint] # <<>>
     /\ c.a.glyphIndex[codePoint][1].page.texture = c.a.mixedPages[n].texture
     /\ c.a.mixedPages[n].texture \notin {a.mixedPages[i].texture : i \in DOMAIN a.mixedPages}
     /\ \A cp \in CodePoints \ {codePoint} : c.a.glyphIndex[cp] = a.glyphIndex[cp]

\* C26 (as claimed): when a non-Latin glyph does not fit on the mixed page
\* selected for it, fillGlyph allocates exactly one new mixed page and places
\* the glyph there; the other glyphs keep page and rectangle and the page
\* count grows by one.
C26_MixedOverflow ==
  \A f \in HeadFill :
    MixedNoFit(f.a, f.codePoint, f.metrics) =>
      PlacedOnNewPage(f.a, f.codePoint,
                      fillGlyph(Ctx(f.a, nextTexture), f.codePoint, f.metrics))

\* C26 (amended): the same unless the fresh page reports no fit either; then
\* fillGlyph raises the fatal error, the index and the pending set stay as
\* they were, and the pages allocated (one, or two when the selected page was
\* itself allocated by this call) stay in the atlas.
C26_MixedOverflowOrFatal ==
  \A f \in HeadFill :
    MixedNoFit(f.a, f.codePoint, f.metrics) =>
      LET c == fillGlyph(Ctx(f.a, nextTexture), f.codePoint, f.metrics)
          fresh == tryAdd(NewPage(nextTexture, Config.pageSize, Config.pageSize),
                          f.metrics.width, f.metrics.height)
      IN IF fresh.ok
         THEN PlacedOnNewPage(f.a, f.codePoint, c)
         ELSE /\ c.threw
              /\ c.a.glyphIndex = f.a.glyphIndex
              /\ c.a.pendingGlyphs = f.a.pendingGlyphs
              /\ Len(c.a.mixedPages) - Len(f.a.mixedPages) \in {1, 2}

\* C26 witness: a completed drain filled two non-Latin glyphs; the second
\* did not fit the page of the first and lies on the mixed page allocated for
\* it, the first kept its rectangle on the first page.
C26_Witness ==
  /\ ret.op = "processBatch" /\ ~ret.threw /\ ret.taken >= 2
  /\ \E k \in DOMAIN atlases : \E c1, c2 \in CodePoints :
       LET a == atlases[k]
       IN /\ ~isLatinChar(c1) /\ ~isLatinChar(c2)
          /\ Len(a.mixedPages) = 2
          /\ Ready(k, c1) /\ a.glyphIndex[c1][1].width > 0
          /\ Ready(k, c2) /\ a.glyphIndex[c2][1].width > 0
          /\ a.glyphIndex[c1][1].page.texture = a.mixedPages[1].texture
          /\ a.glyphIndex[c2][1].page.texture = a.mixedPages[2].texture
          /\ a.mixedPages[1].cursorY > 0

MixedTextures(a) == [i \in DOMAIN a.mixedPages |-> a.mixedPages[i].texture]

IsPrefix(s, t) == Len(s) <= Len(t) /\ \A i \in 1..Len(s) : s[i] = t[i]

\* In this step atlas k got a mixed page although it had maxMixedPages or more
AllocatedAtLimit(k) ==
  /\ k \in DOMAIN atlases /\ k \in DOMAIN atlases'
  /\ LET old == {atlases[k].mixedPages[i].texture : i \in DOMAIN atlases[k].mixedPages}
         new == {atlases'[k].mixedPages[i].texture : i \in DOMAIN atlases'[k].mixedPages}
     IN /\ new \ old # {}
        /\ Len(atlases[k].mixedPages) + Cardinality(new \ old) > Config.maxMixedPages

\* In this step atlas k kept its pages and its Locations; only the Locations
\* of the code points the step worked on changed
NothingEvicted(k) ==
  LET worked == IF ret'.op = "getGlyph" THEN {ret'.codePoint}
                ELSE {e.codePoint : e \in Batch}
  IN /\ IsPrefix(MixedTextures(atlases[k]), MixedTextures(atlases'[k]))
     /\ \A i \in DOMAIN atlases[k].latinPage :
          /\ atlases'[k].latinPage # <<>>
          /\ atlases'[k].latinPage[1].texture = atlases[k].latinPage[i].texture
     /\ \A cp \in CodePoints :
          (atlases[k].glyphIndex[cp] # <<>>) =>
            /\ atlases'[k].glyphIndex[cp] # <<>>
            /\ (cp \notin worked) => atlases'[k].glyphIndex[cp] = atlases[k].glyphIndex[cp]

\* A drain of the current FIFO meets a glyph of the kinds fillGlyph gives up
\* on: a Latin glyph, or one a blank page does not take
FatalOverflowInBatch ==
  \E e \in Batch :
    LET glyph == generateGlyph(e.codePoint, e.genSize, e.fontBuffer)
    IN /\ hasGlyph(e.fontBuffer, e.codePoint) /\ glyph.ok
       /\ \/ isLatinChar(e.codePoint)
          \/ ~tryAdd(NewPage(NoTexture, Config.pageSize, Config.pageSize),
                     glyph.width, glyph.height).ok

\* C27 (as claimed): when a mixed page is allocated at or beyond maxMixedPages
\* the page is appended, no page and no glyph is evicted, and the reservation
\* or fill that needed it completes without error.
C27_LimitNotFatal ==
  [][\A k \in DOMAIN atlases :
       (ret'.op \in {"getGlyph", "processBatch"} /\ AllocatedAtLimit(k)) =>
         NothingEvicted(k) /\ ~ret'.threw]_vars

\* C27 (amended): the same, except that a fill may still end with the fatal
\* overflow error, which is raised whatever the number of mixed pages.
C27_LimitNotFatalButOverflow ==
  [][\A k \in DOMAIN atlases :
       (ret'.op \in {"getGlyph", "processBatch"} /\ AllocatedAtLimit(k)) =>
         /\ NothingEvicted(k)
         /\ ret'.threw => FatalOverflowInBatch]_vars

\* C27 witness: a completed drain left the atlas with two mixed pages more
\* than maxMixedPages, each referenced by a Location.
C27_Witness ==
  /\ ret.op = "processBatch" /\ ~ret.threw
  /\ \E k \in DOMAIN atlases :
       /\ Len(atlases[k].mixedPages) >= Config.maxMixedPages + 2
       /\ \A i \in DOMAIN atlases[k].mixedPages :
            \E cp \in CodePoints :
              /\ atlases[k].glyphIndex[cp] # <<>>
              /\ atlases[k].glyphIndex[cp][1].page.texture = atlases[k].mixedPages[i].texture

\* C28 (as claimed): with the default configuration a render size below 40
\* selects 32, one from 40 up to but below 80 selects 64, every other 128.
C28_DefaultSelection ==
  (sel.result # <<>> /\ sel.config = DefaultSelConfig) =>
    sel.result[1] = (IF sel.renderSize < 40 THEN 32
                     ELSE IF sel.renderSize < 80 THEN 64 ELSE 128)

\* C28 (amended): with the default configuration a render size up to and
\* including 40 selects 32, one above 40 up to and including 80 selects 64,
\* every other 128.
C28_DefaultSelectionInclusive ==
  (sel.result # <<>> /\ sel.config = DefaultSelConfig) =>
    sel.result[1] = (IF sel.renderSize <= 40 THEN 32
                     ELSE IF sel.renderSize <= 80 THEN 64 ELSE 128)

\* C28 witness: under the default configuration render size 80 selected 64.
C28_Witness ==
  /\ sel.config = DefaultSelConfig /\ sel.renderSize = 80
  /\ sel.result = <<64>>

\* The handles of the pages the variant atlases hold
LiveTextures ==
  UNION {{AllPages(atlases[k])[i].texture : i \in 1..Len(AllPages(atlases[k]))} :
           k \in DOMAIN atlases}

\* C29: dispose has destroy called exactly once for every texture handle
\* created so far, and no destroyed handle gets an update afterwards, also
\* when a drain task that was queued before dispose runs after it.
C29_TextureLifecycle ==
  /\ \A h \in DOMAIN textures.destroys : textures.destroys[h] = 1
  /\ (ret.op = "dispose") => DOMAIN textures.destroys = 1..(nextTexture - 1)
  /\ textures.late = {}
  /\ LiveTextures \cap DOMAIN textures.destroys = {}

\* C29 witness: after a dispose that destroyed textures, a drain task ran,
\* filled and flushed a page and called back, while a second drain task is
\* still queued (so one of the two was queued before the dispose).
C29_Witness ==
  /\ ret.op = "processBatch" /\ ret.callbacks = 1
  /\ DOMAIN textures.destroys # {}
  /\ tasks >= 1
  /\ \E k \in DOMAIN atlases : \E i \in 1..Len(AllPages(atlases[k])) :
       AllPages(atlases[k])[i].cursorX > 0

\* C30 (as claimed): after any sequence of tryAdd calls on a W x H page,
\* cursorX is in [0, W], cursorY is in [0, H], and rowHeight is at least the
\* height of every glyph placed in the current shelf row.
C30_PageCursor ==
  LET page == shelf.page[1]
  IN /\ 0 <= page.cursorX /\ page.cursorX <= page.width
     /\ 0 <= page.cursorY /\ page.cursorY <= page.height
     /\ \A h \in shelf.row : page.rowHeight >= h

\* Two placements share a pixel
Overlap(r1, r2) ==
  /\ r1.x < r2.x + r2.w /\ r2.x < r1.x + r1.w
  /\ r1.y < r2.y + r2.h /\ r2.y < r1.y + r1.h

\* r1 lies before r2 with at least one free pixel between them: to the left
\* of it in the same shelf row, above it in an earlier shelf row
Gutter(r1, r2) ==
  IF r1.y = r2.y THEN r1.x + r1.w + padding <= r2.x
  ELSE r1.y + r1.h + padding <= r2.y

\* C31: for any sequence of tryAdd calls on one page, the rectangles of the
\* successful placements are pairwise disjoint, and any two of them are
\* separated by at least one pixel, horizontally within a shelf row and
\* vertically between shelf rows.
C31_GutterNonOverlap ==
  \A i, j \in 1..Len(shelf.placed) :
    (i < j) =>
      /\ ~Overlap(shelf.placed[i], shelf.placed[j])
      /\ Gutter(shelf.placed[i], shelf.placed[j])

\* C31 witness: two glyphs in one shelf row and a third one in a later row.
C31_Witness ==
  \E i, j, k \in 1..Len(shelf.placed) :
    /\ i < j /\ j < k
    /\ shelf.placed[i].y = shelf.placed[j].y
    /\ shelf.placed[k].y > shelf.placed[j].y

\* The FIFO holds an entry for cp in the atlas of key k
Queued(k, cp) ==
  \E i \in 1..Len(pendingGlyphs) :
    KeyOf(pendingGlyphs[i]) = k /\ pendingGlyphs[i].codePoint = cp

\* C32 (as claimed): every code point that becomes pending through a getGlyph
\* miss eventually leaves the pending set, provided scheduler ticks keep
\* occurring and dispose is not called.
C32_PendingEventuallyLeaves ==
  \A k \in Keys, cp \in RequestCPs :
    Queued(k, cp) ~> ~IsPending(k, cp)

\* The step is a getGlyph miss made right after a drain returned, which is
\* what a getGlyph call inside onGlyphsReady, the drain's last statement, sees
MissAfterDrain ==
  ret.op = "processBatch" /\ ret'.op = "getGlyph" /\ ~ret'.info.cached

\* The miss is left to the next drain: its entry is the only one in the FIFO,
\* its code point is pending and a new drain task is queued
LeftToNextDrain ==
  /\ Len(pendingGlyphs') = 1
  /\ pendingGlyphs'[1].codePoint = ret'.codePoint
  /\ KeyOf(pendingGlyphs'[1]) = ret'.key
  /\ \E k \in {ret'.key}, cp \in {ret'.codePoint} : IsPending(k, cp)'
  /\ ~batchPromise /\ batchPromise'
  /\ tasks' = tasks + 1

\* No call but a drain or dispose takes an entry out of the FIFO
EntriesKept ==
  (ret'.op \notin {"processBatch", "dispose"}) =>
    /\ Len(pendingGlyphs) <= Len(pendingGlyphs')
    /\ \A i \in 1..Len(pendingGlyphs) : pendingGlyphs'[i] = pendingGlyphs[i]

\* The drain step takes every entry of the FIFO, ends the pending state of
\* each and fires onGlyphsReady once
DrainProcessesAll ==
  /\ ret'.taken = Len(pendingGlyphs)
  /\ pendingGlyphs' = <<>>
  /\ \A e \in Batch : \E k \in {KeyOf(e)} : ~IsPending(k, e.codePoint)'
  /\ ret'.callbacks = 1

\* C33 (as claimed): a getGlyph miss issued after a drain has taken its FIFO
\* snapshot is not processed by that drain: it is kept in the FIFO, schedules
\* a new drain task, and is processed by the next drain, which fires
\* onGlyphsReady again.
C33_MissDuringDrain ==
  [][/\ MissAfterDrain => LeftToNextDrain
     /\ EntriesKept
     /\ (ret'.op = "processBatch" /\ pendingGlyphs # <<>>) =>
          DrainProcessesAll]_vars

\* Worker w is on the idle stack of pool p
Idle(p, w) == \E i \in 1..Len(p.available) : p.available[i] = w

\* In this step worker w delivered the result of its task and was sent task t
HandedOver(w, t) ==
  /\ pool.workerTasks[w] # <<>>
  /\ pool.tasks[pool.workerTasks[w][1]].state = "sent"
  /\ pool'.tasks[pool.workerTasks[w][1]].state = "resolved"
  /\ pool'.workerTasks[w] = <<t>>
  /\ pool'.tasks[t].sentTo = <<w>>

\* C34: work-conserving FIFO dispatch. Once the pool is ready a task waits in
\* the overflow FIFO only while no worker is idle; the FIFO holds the tasks
\* in the order of their generateGlyph calls and only its head is dispatched,
\* to the worker that just delivered a result; a worker that was set up goes
\* back to the idle stack only when the overflow FIFO is empty.
C34_WorkConservingFifo ==
  /\ []((pool.ready = "resolved" /\ pool.taskQueue # <<>>) => pool.available = <<>>)
  /\ [](\A i, j \in 1..Len(pool.taskQueue) :
          (i < j) => pool.taskQueue[i] < pool.taskQueue[j])
  /\ [][/\ (pool'.taskQueue # pool.taskQueue) =>
            \/ /\ Len(pool'.taskQueue) = Len(pool.taskQueue) + 1
               /\ SubSeq(pool'.taskQueue, 1, Len(pool.taskQueue)) = pool.taskQueue
            \/ /\ pool.taskQueue # <<>>
               /\ pool'.taskQueue = Tail(pool.taskQueue)
               /\ \E w \in WorkerIds(pool) : HandedOver(w, Head(pool.taskQueue))
       /\ \A t \in 1..Len(pool.tasks) :
            (pool.tasks[t].state = "queued" /\ pool'.tasks[t].state # "queued") =>
              (pool.taskQueue # <<>> /\ t = Head(pool.taskQueue))
       /\ \A w \in WorkerIds(pool) :
            (pool.resultListener[w] /\ ~Idle(pool, w) /\ Idle(pool', w)) =>
              (pool.taskQueue = <<>> /\ pool'.taskQueue = <<>>)]_vars

\* C34 witness: two workers and four calls; one worker delivered its result
\* and was handed task 3 from the overflow FIFO, task 4 still waits while
\* the other worker is busy with its first task.
C34_Witness ==
  /\ pool.numWorkers = 2
  /\ Len(pool.tasks) = 4
  /\ pool.taskQueue = <<4>>
  /\ pool.available = <<>>
  /\ \E w1, w2 \in WorkerIds(pool) :
       /\ w1 # w2
       /\ pool.workerTasks[w1] = <<3>>
       /\ pool.workerTasks[w2] # <<>> /\ pool.workerTasks[w2][1] \in {1, 2}
       /\ \E t \in {1, 2} : pool.tasks[t].state = "resolved" /\ pool.tasks[t].sentTo = <<w1>>

\* The workers in this.workers
PoolWorkers == {pool.workers[i] : i \in 1..Len(pool.workers)}

\* The unresolved tasks whose generate message went to worker w
AssignedTo(w) ==
  {t \in 1..Len(pool.tasks) :
     /\ pool.tasks[t].state = "sent"
     /\ pool.tasks[t].sentTo[Len(pool.tasks[t].sentTo)] = w}

\* The generate messages sent to worker w whose result the pool has not
\* received yet: those the worker has not answered and the answers that are
\* not delivered
GenerateOutstanding(w) ==
  {<<"generate", i>> : i \in {j \in 1..Len(pool.toWorker[w]) :
                                pool.toWorker[w][j].type = "generate"}}
  \cup {<<"result", i>> : i \in {j \in 1..Len(pool.fromWorker[w]) :
                                  pool.fromWorker[w][j].type = "result"}}

\* C35: worker bookkeeping. In every reachable state each worker of the pool
\* has at most one assigned task (the one worker -> task maps it to) and at
\* most one generate message outstanding; a worker that replied ready is on
\* the idle stack exactly when it has no assigned task and no generate
\* message outstanding; the idle stack holds no worker twice and only workers
\* that replied ready.
C35_WorkerBookkeeping ==
  /\ \A w \in PoolWorkers :
       /\ Cardinality(AssignedTo(w)) <= 1
       /\ Len(pool.workerTasks[w]) <= 1
       /\ AssignedTo(w) = {pool.workerTasks[w][i] : i \in 1..Len(pool.workerTasks[w])}
       /\ Cardinality(GenerateOutstanding(w)) <= 1
       /\ pool.resultListener[w] =>
            (Idle(pool, w) <=> (pool.workerTasks[w] = <<>> /\ GenerateOutstanding(w) = {}))
  /\ \A i, j \in 1..Len(pool.available) :
       (pool.available[i] = pool.available[j]) => (i = j)
  /\ \A i \in 1..Len(pool.available) : pool.resultListener[pool.available[i]]

\* C35 witness: of two workers that replied ready one is back on the idle
\* stack after it delivered a result and the other one holds an assigned
\* task with its generate message outstanding.
C35_Witness ==
  /\ pool.numWorkers = 2
  /\ \E w1, w2 \in PoolWorkers :
       /\ w1 # w2
       /\ pool.available = <<w1>>
       /\ pool.workerTasks[w1] = <<>>
       /\ \E t \in 1..Len(pool.tasks) :
            pool.tasks[t].state = "resolved" /\ pool.tasks[t].sentTo = <<w1>>
       /\ pool.workerTasks[w2] # <<>>
       /\ GenerateOutstanding(w2) # {}

\* C36 (as claimed): after the pool has sent a dispose message to a worker it
\* sends no further generate message to that worker: no worker's channel
\* holds a generate message behind a dispose message.
C36_NoGenerateAfterDispose ==
  \A w \in WorkerIds(pool) :
    \A i, j \in 1..Len(pool.toWorker[w]) :
      (i < j /\ pool.toWorker[w][i].type = "dispose") =>
        (pool.toWorker[w][j].type # "generate")

\* C37 (as claimed): every generateGlyph call is eventually resolved, for
\* every pool size allowed by the options (numWorkers >= 0) and any number of
\* concurrent calls, provided initialisation succeeded, every worker
\* eventually replies to each generate message and dispose is not called.
C37_EveryCallResolves ==
  \A t \in 1..MaxOverflowTasks :
    (Len(pool.tasks) >= t) ~>
      (Len(pool.tasks) >= t /\ pool.tasks[t].state = "resolved")

\* What a client and the workers see of pool p: the messages it sent that
\* are not answered yet, the generate messages sent per call, and the state
\* and value of every promise it returned
Observed(p) ==
  [toWorker |-> p.toWorker,
   tasks |-> p.tasks,
   batches |-> p.batches,
   ready |-> p.ready,
   disposed |-> p.disposed]

\* C38 (as claimed): driven by the same calls and the same worker message
\* sequences, the Node and the Deno worker pool send the same messages to
\* workers and resolve, reject or leave pending exactly the same promises.
C38_NodeDenoEquivalent == Observed(pool.node) = Observed(pool.deno)

\* The call that led from atlas a to context c raised no error or left the
\* atlas and the texture factory as they were
UnchangedIfThrown(a, c) == c.threw => (c.a = a /\ c.next = nextTexture)

\* C39 (as claimed): when fillGlyph or addGlyph raises a fatal overflow
\* error, the variant atlas is left as it was before the call: the same pages
\* (none added), the same page cursors and dirty flags, the same glyph index
\* and the same pending set.
C39_UnchangedOnFatalError ==
  \A k \in DOMAIN atlases : \A cp \in CodePoints : \A metrics \in GlyphsOf(cp) :
    /\ (cp \in atlases[k].pendingGlyphs) =>
         UnchangedIfThrown(atlases[k],
                           fillGlyph(Ctx(atlases[k], nextTexture), cp, metrics))
    /\ (atlasGetGlyph(atlases[k], cp) = <<>>) =>
         UnchangedIfThrown(atlases[k],
                           addGlyph(Ctx(atlases[k], nextTexture), cp, metrics))

\* cp is in state ready (filled, not empty) in atlas a
Filled(a, cp) ==
  /\ cp \notin a.pendingGlyphs
  /\ a.glyphIndex[cp] # <<>>
  /\ ~a.glyphIndex[cp][1].empty

\* The number of code points in state ready (filled, not empty), all atlases
FilledCount(m) ==
  Cardinality({e \in (DOMAIN m) \X CodePoints : Filled(m[e[1]], e[2])})

RECURSIVE Placements(_, _, _)
\* The number of rectangles tryAdd places while the drain runs over batch[i..]:
\* a fillGlyph call that returns has placed one, a throwing one has placed none
Placements(st, batch, i) ==
  IF i > Len(batch) \/ st.threw THEN 0
  ELSE LET pending == batch[i]
           glyph == generateGlyph(pending.codePoint, pending.genSize, pending.fontBuffer)
           nx == ProcessEntry(st, pending)
       IN (IF hasGlyph(pending.fontBuffer, pending.codePoint) /\ glyph.ok /\ ~nx.threw
           THEN 1 ELSE 0) + Placements(nx, batch, i + 1)

\* C40 (as claimed): each glyph is packed once. The number of rectangles tryAdd
\* placed equals the number of ready (filled, not empty) code points: a drain
\* places as many rectangles as it makes code points ready.
C40_PackedOnce ==
  [][tasks' = tasks - 1 =>
       \E n \in {Placements(DrainStart, pendingGlyphs, 1)} :
         FilledCount(atlases') = FilledCount(atlases) + n]_vars

====
